---------------------------- MODULE Spec2Model ----------------------------
(***************************************************************************)
(* Model of the P/D sidecar reverse proxy (pkg/sidecar/proxy): the chat    *)
(* completions dispatcher, the NIXL v2 protocol runner, the buffered       *)
(* response writer and the SSRF allowlist validator.                       *)
(*                                                                         *)
(* Strings that the code parses (prefill targets) are sequences of tokens; *)
(* JSON values are tagged records of one shape; a JSON object held in a Go *)
(* map[string]any is a function whose DOMAIN is the set of present keys.   *)
(* A number the integers of the model hold is one float64 represents       *)
(* exactly, which encoding/json decodes and re-encodes to the same value;  *)
(* a longer number literal is carried as its text.                         *)
(***************************************************************************)
EXTENDS Integers, Sequences, FiniteSets, TLC

(***************************************************************************)
(* Bounds                                                                  *)
(***************************************************************************)
\* number of request identifiers the model lets uuid.NewUUID hand out
MaxUUID == 2

\* number of peer handlers the model lets prefillerProxyHandler create
MaxProxies == 4

\* number of pod informers the model lets createPodInformer make
MaxInformers == 3

\* number of prefill peers whose requests reach one proxy
MaxPeers == 18

\* number of peer handlers built beyond one for each peer
MaxExtra == 1

(***************************************************************************)
(* JSON values (encoding/json into map[string]any)                         *)
(***************************************************************************)
NoFields == <<>>

JNull == [t |-> "null", n |-> 0, s |-> "", f |-> NoFields]

JBool(b) == [t |-> IF b THEN "true" ELSE "false", n |-> 0, s |-> "", f |-> NoFields]

JNum(n) == [t |-> "number", n |-> n, s |-> "", f |-> NoFields]

\* a number given by its literal (one too long for n)
JNumLit(lit) == [t |-> "number", n |-> 0, s |-> lit, f |-> NoFields]

JStr(s) == [t |-> "string", n |-> 0, s |-> s, f |-> NoFields]

JObj(f) == [t |-> "object", n |-> 0, s |-> "", f |-> f]

\* Go: v, ok := m[k]   (ok)
MapHas(m, k) == k \in DOMAIN m

\* Go: v, ok := m[k]   (v; the nil interface, which marshals as null, when missing)
MapGet(m, k) == IF k \in DOMAIN m THEN m[k] ELSE JNull

\* Go: m[k] = v
MapSet(m, k, v) == [x \in (DOMAIN m) \cup {k} |-> IF x = k THEN v ELSE m[x]]

\* Go: delete(m, k)
MapDelete(m, k) == [x \in (DOMAIN m) \ {k} |-> m[x]]

requestFieldKVTransferParams == "kv_transfer_params"

requestFieldMaxTokens == "max_tokens"

requestFieldMaxCompletionTokens == "max_completion_tokens"

requestFieldDoRemotePrefill == "do_remote_prefill"

requestFieldDoRemoteDecode == "do_remote_decode"

requestFieldRemoteBlockIDs == "remote_block_ids"

requestFieldRemoteEngineID == "remote_engine_id"

requestFieldRemoteHost == "remote_host"

requestFieldRemotePort == "remote_port"

requestFieldStream == "stream"

requestFieldStreamOptions == "stream_options"

(***************************************************************************)
(* A message body as it travels: text that is not JSON, the literal null,  *)
(* a JSON value that is not an object, or a JSON object.                   *)
(***************************************************************************)
\* no bytes at all
DocEmpty == [kind |-> "empty", members |-> NoFields]

\* a body whose read fails (the client went away while sending it)
DocUnreadable == [kind |-> "unreadable", members |-> NoFields]

DocInvalid == [kind |-> "invalid", members |-> NoFields]

DocNull == [kind |-> "null", members |-> NoFields]

DocArray == [kind |-> "array", members |-> NoFields]

DocObject(m) == [kind |-> "object", members |-> m]

\* 2^53 + 1, the least positive integer float64 does not represent, and the
\* float64 nearest to it
Literal2Pow53Plus1 == "9007199254740993"

Literal2Pow53 == "9007199254740992"

\* a JSON number decoded into an any is a float64 (strconv.ParseFloat), which
\* json.Marshal writes back in the shortest form that reads as the same float64
convertNumber(v) ==
    IF v.t = "number" /\ v.s = Literal2Pow53Plus1 THEN JNumLit(Literal2Pow53) ELSE v

\* json.Unmarshal(data, &m) with m a nil map[string]any: a syntax error or a
\* non-object value is an error; null is accepted and leaves the map nil.
Unmarshal(doc) ==
    CASE doc.kind = "object" ->
            [err |-> FALSE, isNil |-> FALSE,
             m |-> [k \in DOMAIN doc.members |-> convertNumber(doc.members[k])]]
      [] doc.kind = "null"   -> [err |-> FALSE, isNil |-> TRUE, m |-> NoFields]
      [] OTHER               -> [err |-> TRUE, isNil |-> TRUE, m |-> NoFields]

\* json.Marshal(m) of a non-nil map[string]any whose values came from JSON
Marshal(m) == DocObject(m)

(***************************************************************************)
(* Strings the code takes apart: sequences of tokens.  A host name, an IP  *)
(* address or a port number is one token; ":", "[", "]", "http" and "//"   *)
(* are tokens of their own.  The empty string is the empty sequence.       *)
(***************************************************************************)
EmptyString == <<>>

\* strings.IndexByte: position of the first c in s (1-based), 0 when absent
IndexByte(s, c) ==
    IF \E i \in 1..Len(s) : s[i] = c
    THEN CHOOSE i \in 1..Len(s) : s[i] = c /\ \A j \in 1..(i - 1) : s[j] # c
    ELSE 0

\* strings.LastIndexByte: position of the last c in s (1-based), 0 when absent
LastIndexByte(s, c) ==
    IF \E i \in 1..Len(s) : s[i] = c
    THEN CHOOSE i \in 1..Len(s) : s[i] = c /\ \A j \in (i + 1)..Len(s) : s[j] # c
    ELSE 0

\* s[from:] in Go, with from 1-based here
Suffix(s, from) == SubSeq(s, from, Len(s))

\* net.SplitHostPort, as normalizeHostPort calls it
SplitHostPort(hostport) ==
    LET i    == LastIndexByte(hostport, ":")
        end  == IndexByte(hostport, "]")
        fail == [err |-> TRUE, host |-> EmptyString, port |-> EmptyString]
        ok(host, j, k) ==
            IF IndexByte(Suffix(hostport, j), "[") # 0 THEN fail
            ELSE IF IndexByte(Suffix(hostport, k), "]") # 0 THEN fail
            ELSE [err |-> FALSE, host |-> host, port |-> Suffix(hostport, i + 1)]
    IN  IF i = 0 THEN fail
        ELSE IF hostport[1] = "["
        THEN IF end = 0 THEN fail
             ELSE IF end = Len(hostport) THEN fail
             ELSE IF end + 1 # i THEN fail
             ELSE ok(SubSeq(hostport, 2, end - 1), 2, end + 1)
        ELSE IF IndexByte(SubSeq(hostport, 1, i - 1), ":") # 0 THEN fail
             ELSE ok(SubSeq(hostport, 1, i - 1), 1, 1)

HTTPPrefix == <<"http", ":", "//">>

\* strings.CutPrefix(hostPort, "http://"), first result
CutPrefix(s, prefix) ==
    IF Len(s) >= Len(prefix) /\ SubSeq(s, 1, Len(prefix)) = prefix
    THEN Suffix(s, Len(prefix) + 1)
    ELSE s

\* tokens that are decimal port numbers
PortTokens == {"9000"}

\* url.Parse(s.prefillerURLPrefix + hostPort) fails: of the inputs the model
\* draws, on a port that is not a number
URLParseFails(hostPort) ==
    LET i == LastIndexByte(hostPort, ":")
    IN  /\ i # 0
        /\ \/ i = Len(hostPort)
           \/ \E j \in (i + 1)..Len(hostPort) : hostPort[j] \notin PortTokens

(***************************************************************************)
(* Allowlist validator                                                     *)
(***************************************************************************)
\* the one InferencePool the pool informer's field selector lets through
PoolName == "pool"

PodNames == {"pod1"}

PodIPs == {"", "10.0.0.5"}

\* normalizeHostPort: the host part, or the whole input when it does not split
normalizeHostPort_Whole(hostPort) == hostPort

normalizeHostPort(hostPort) ==
    LET r == SplitHostPort(hostPort)
    IN  IF r.err THEN hostPort ELSE r.host

\* IsAllowed
IsAllowed_AllowAll(isEnabled, targets, hostPort) == TRUE

IsAllowed_IgnoreEnabled(isEnabled, targets, hostPort) ==
    normalizeHostPort(hostPort) \in targets

IsAllowed(isEnabled, targets, hostPort) ==
    IF ~isEnabled THEN TRUE
    ELSE normalizeHostPort(hostPort) \in targets

\* addPodToAllowlist: what one pod contributes (a host is a one-token string)
addPodToAllowlist(podName, podIP) ==
    (IF podIP # "" THEN {<<podIP>>} ELSE {}) \cup
    (IF podName # "" THEN {<<podName>>} ELSE {})

\* rebuildAllowlist: from the stores of all pod informers, pods with an IP only
rebuildAllowlist_AllPods(informers) ==
    UNION { addPodToAllowlist(name, informers[pool][name]) :
              <<pool, name>> \in { pn \in (DOMAIN informers) \X PodNames :
                                     pn[2] \in DOMAIN informers[pn[1]] } }

rebuildAllowlist(informers) ==
    UNION { addPodToAllowlist(name, informers[pool][name]) :
              <<pool, name>> \in { pn \in (DOMAIN informers) \X PodNames :
                                     /\ pn[2] \in DOMAIN informers[pn[1]]
                                     /\ informers[pn[1]][pn[2]] # "" } }

(***************************************************************************)
(* Inputs                                                                  *)
(***************************************************************************)
Methods == {"GET", "HEAD", "POST"}

ChatCompletionsPath == "/v1/chat/completions"

CompletionsPath == "/v1/completions"

Paths == {"/health", ChatCompletionsPath, CompletionsPath, "/v1/embeddings", "//health"}

\* cleanPath of net/http, which the ServeMux applies before matching: "." and
\* ".." segments and repeated slashes are removed
cleanPath(path) ==
    CASE path = "//health" -> "/health"
      [] OTHER -> path

\* values of the x-prefiller-host-port header ("" when the header is absent)
HostPortHeaders ==
    { EmptyString,
      <<"10.0.0.5", ":", "9000">>,
      <<"evil.example", ":", "9000">>,
      <<"http", ":", "//", "10.0.0.5", ":", "9000">>,
      <<"10.0.0.5", ":", "abc">> }

\* values of the legacy x-prefiller-url header ("" when the header is absent)
URLHeaders ==
    { EmptyString,
      <<"evil.example", ":", "9000">> }

(* Data-parallel table (startDataParallel) *)
\* --port
Port == 8000

\* --vllm-port
VLLMPort == 8001

\* --data-parallel-size
DataParallelSize == 2

\* os.Getenv("POD_IP")
POD_IP == "10.0.0.9"

\* strconv.Itoa, on the port numbers the table is built from
Itoa(n) ==
    CASE n = 8000 -> "8000"
      [] n = 8001 -> "8001"
      [] n = 8002 -> "8002"
      [] n = 8003 -> "8003"
      [] n = 8004 -> "8004"
      [] n = 8005 -> "8005"
      [] n = 8006 -> "8006"

\* net.JoinHostPort
JoinHostPort(host, port) == <<host, ":", port>>

\* s.decoderURL, and the URL of the decoder of rank idx: scheme://localhost:port
DecoderURL(idx) == JoinHostPort("localhost", Itoa(VLLMPort + idx))

\* s.dataParallelProxies as startDataParallel fills it: podIP:port+idx maps to
\* the pass-through handler of the decoder of rank idx
dataParallelProxies ==
    [ k \in { JoinHostPort(POD_IP, Itoa(Port + idx)) : idx \in 0..(DataParallelSize - 1) } |->
        DecoderURL(CHOOSE idx \in 0..(DataParallelSize - 1) :
                      JoinHostPort(POD_IP, Itoa(Port + idx)) = k) ]

\* values of the x-data-parallel-host-port header ("" when the header is absent):
\* the key of a sibling, the key of the primary, a key the table does not have
DataParallelHeaders ==
    { EmptyString,
      JoinHostPort(POD_IP, "8001"),
      JoinHostPort(POD_IP, "8000"),
      JoinHostPort(POD_IP, "9999") }

\* kv_transfer_params a client may send itself
ClientKV == JObj([do_remote_prefill |-> JBool(TRUE)])

\* kv_transfer_params a prefill peer may answer with
PeerKV ==
    JObj([remote_engine_id |-> JStr("engine-1"), remote_block_ids |-> JNum(7)])

\* the values a client may give each field of its body; Absent: key not sent
Absent == [t |-> "absent", n |-> 0, s |-> "", f |-> NoFields]

ClientChoices ==
    [ stream                : {Absent, JBool(TRUE), JBool(FALSE)},
      stream_options        : {Absent, JObj([include_usage |-> JBool(TRUE)])},
      max_tokens            : {Absent, JNum(50)},
      max_completion_tokens : {Absent, JNum(100)},
      kv_transfer_params    : {Absent, ClientKV},
      model                 : {JStr("m")} ]

\* the JSON object with exactly the fields of choice that are not Absent
ObjectOf(choice) ==
    [k \in {x \in DOMAIN choice : choice[x] # Absent} |-> choice[k]]

\* an object with a key the runner does not know, holding a 64-bit integer
SeedObject == [model |-> JStr("m"), seed |-> JNumLit(Literal2Pow53Plus1)]

ClientObjects == { ObjectOf(c) : c \in ClientChoices } \cup { SeedObject }

\* bodies a client may send: text that is not JSON, null, an array, an object
ClientDocs == {DocUnreadable, DocInvalid, DocNull, DocArray} \cup { DocObject(m) : m \in ClientObjects }

\* bodies of the requests that carry the data-parallel header
DataParallelDocs == { DocObject([model |-> JStr("m")]) }

\* an x-request-id value a client sends itself (the proxy's own are 1, 2, ...)
ClientRequestID == 99

\* the x-request-id values of the inbound request, in the order of its header
\* lines: none, and for the plainest body also one of the client's own
XRequestIDs(dp, doc) ==
    { << >> } \cup
    (IF dp = EmptyString /\ doc = DocObject([model |-> JStr("m")])
     THEN { << ClientRequestID >> } ELSE {})

\* http.Header.Add: the value goes after those the key already has
HeaderAdd(values, value) == Append(values, value)

\* http.Header.Get: the first value of the key (0 for "", when it has none)
HeaderGet(values) == IF values = << >> THEN 0 ELSE values[1]

\* dataParallelHandler: whether the request was served here, the decoder it
\* was handed to (EmptyString: none) and the status written (0: none).
\* No handler of createRoutes calls it.
dataParallelHandler(dataParallelPodHostPort) ==
    IF dataParallelPodHostPort # EmptyString
    THEN IF dataParallelPodHostPort \in DOMAIN dataParallelProxies
         THEN [handled |-> TRUE, to |-> dataParallelProxies[dataParallelPodHostPort],
               statusCode |-> 0]
         ELSE [handled |-> TRUE, to |-> EmptyString, statusCode |-> 400]
    ELSE [handled |-> FALSE, to |-> EmptyString, statusCode |-> 0]

\* statuses the prefill peer (or the reverse proxy's error handler) may write;
\* the reverse proxy passes a 1xx status on as an interim one and never leaves
\* it as the status of the response
PrefillStatuses == {200, 299, 300, 404, 502}

\* bodies the prefill peer may answer with
PrefillResponseDocs ==
    { DocInvalid, DocNull,
      DocObject([id |-> JStr("cmpl-1")]),
      DocObject([id |-> JStr("cmpl-1"), kv_transfer_params |-> PeerKV]) }

\* statuses the local decoder (or the decoder proxy's error handler) may write
DecoderStatuses == {200, 502}

(***************************************************************************)
(* State                                                                   *)
(***************************************************************************)
VARIABLES
    pc,                  \* where the request goroutine is
    handledBy,           \* the code path serving the request: "" (none), "health",
                         \* "redirect", "decoderProxy", "passthrough", "forbidden" or "runner"
    req,                 \* the inbound request being served
    prefillPodHostPort,  \* chatCompletionsHandler's local
    completionRequest,   \* runNIXLProtocolV2's parsed and rewritten body
    saved,               \* streamValue/streamOk, streamOptionsValue/Ok, maxTokensValue/Ok
    uuidStr,             \* the request UUID of the request being served (0: none)
    pw,                  \* the bufferedResponseWriter the prefill response lands in
    w,                   \* the ResponseWriter of the client connection
    prefillReqs,         \* sub-requests sent to prefill peers for this request
    decodeReqs,          \* sub-requests sent to the local decoder for this request
    nextUUID,            \* how many UUIDs uuid.NewUUID has handed out
    enabled,             \* AllowlistValidator.enabled
    allowedTargets,      \* AllowlistValidator.allowedTargets
    podInformers,        \* AllowlistValidator.podInformers: pool |-> (pod name |-> pod IP)
    poolStore,           \* the pool informer's store: pool |-> its spec has a selector
    prefillerProxies,    \* Server.prefillerProxies: the LRU cache, most recently used first
    proxiesCreated,      \* how many peer handlers httputil.NewSingleHostReverseProxy made
    lastCall,            \* the last call of prefillerProxyHandler: its input and results
    ctxDone,             \* the context given to Server.Start is cancelled
    listenerPc,          \* rank |-> where the listener's BaseStart is
    shutdownPc,          \* rank |-> where the listener's termination goroutine is
    startResult,         \* what Server.Start returned: "" (not yet), "nil" or "error"
    crashed,             \* a goroutine panicked: the process is gone
    stopCh,              \* AllowlistValidator.stopCh: how many times it was closed
    poolInformersRun,    \* how many pool informers AllowlistValidator.Start has set running
    poolSynced,          \* the pool informers have synced their cache
    podStopChans,        \* AllowlistValidator.podStopChans: pool |-> channel
    podChans,            \* the per-pool stop channels made so far, each with the pool and
                         \* selector of its pod informer and how many times it was closed
    lastEvent,           \* the InferencePool event handled last: its type and spec.selector
    goOp,                \* goroutine |-> the validator operation it is in ("" when in none)
    goPc,                \* goroutine |-> the instruction of that operation it is at
    allowedTargetsMu,    \* AllowlistValidator.allowedTargetsMu: its writer and its readers
    podInformersMu,      \* AllowlistValidator.podInformersMu: its writer and its readers
    snap,                \* goroutine |-> what store.List() gave its rebuildAllowlist
    isAllowedCall,       \* the last call of IsAllowed: its argument and what it returned
    inFlight,            \* request goroutine |-> the peer handler it built and has not
                         \* yet added to the cache
    srvPort,             \* Server.port, the --port flag
    srvDecoderPort,      \* Server.decoderURL.Port(), from the --vllm-port flag
    dpSize,              \* Server.config.DataParallelSize
    dpProxies,           \* Server.dataParallelProxies: host:port |-> target of the handler
    startPc,             \* where Server.Start is
    dpIdx,               \* the loop variable of startDataParallel's loops
    rankPc,              \* rank |-> where the listener goroutine of the rank is
    dpLookup,            \* rank |-> the handler its listener goroutine found in the table
    lruCache,            \* NoHitLRU.lruCache: its keys (pod names), oldest first
    lruSize,             \* the capacity NoHitLRU.lruCache was made with
    pluginState,         \* NoHitLRU.pluginState: request id |-> coldRequestState.isCold
    inCycle,             \* the requests that are between their Score and their PreRequest
    lastScore,           \* the last call of Score: its inputs and the scores returned
    coldOrder,           \* the pods PreRequest has entered in the cache, ordered by
                         \* their last entry, oldest first (the cache forgets, this not)
    clientHeaders,       \* the prefill headers of the request as the client sent it
    requestHeaders,      \* LLMRequest.Headers: header name |-> value
    profileResults,      \* SchedulingResult.ProfileResults: profile |-> its target pods
    prePc,               \* where the request is: "idle", "scheduled", "handled", "served"
    sidecarTarget        \* the prefill target chatCompletionsHandler read for the request

vars == << pc, handledBy, req, prefillPodHostPort, completionRequest, saved, uuidStr, pw, w,
           prefillReqs, decodeReqs, nextUUID, enabled, allowedTargets, podInformers,
           poolStore, prefillerProxies, proxiesCreated, lastCall, ctxDone, listenerPc,
           shutdownPc, startResult, crashed, stopCh, poolInformersRun, poolSynced,
           podStopChans, podChans, lastEvent, goOp, goPc, allowedTargetsMu,
           podInformersMu, snap, isAllowedCall, inFlight, srvPort, srvDecoderPort,
           dpSize, dpProxies, startPc, dpIdx, rankPc, dpLookup, lruCache, lruSize,
           pluginState, inCycle, lastScore, coldOrder, clientHeaders, requestHeaders,
           profileResults, prePc, sidecarTarget >>

reqVars == << pc, handledBy, req, prefillPodHostPort, completionRequest, saved, uuidStr, pw, w,
              prefillReqs, decodeReqs, nextUUID >>

allowlistVars == << enabled, allowedTargets, podInformers, poolStore >>

cacheVars == << prefillerProxies, proxiesCreated, lastCall >>

lockVars == << goOp, goPc, allowedTargetsMu, podInformersMu, snap, isAllowedCall >>

startVars == << srvPort, srvDecoderPort, dpSize, dpProxies, startPc, dpIdx, rankPc,
               dpLookup >>

schedVars == << lruCache, lruSize, pluginState, inCycle, lastScore, coldOrder >>

hdrVars == << clientHeaders, requestHeaders, profileResults, prePc, sidecarTarget >>

extVars == << lockVars, inFlight, startVars, schedVars, hdrVars >>

\* the goroutines that serve requests at the same time
Servers == {"s1", "s2"}

NoAdd == [hostPort |-> << >>, key |-> << >>, id |-> 0]

\* the goroutines that call into the validator: the one serving a request, the
\* pool informer's and the pod informer's handler goroutines, and the
\* termination goroutine of the listener
Goroutines == {"request", "poolInformer", "podInformer", "termination"}

\* a sync.RWMutex nobody holds
Unlocked == [w |-> "", r |-> {}]

NoIsAllowedCall == [hostPort |-> << >>, returned |-> FALSE, allowed |-> FALSE]

lifeVars == << ctxDone, listenerPc, shutdownPc, startResult, crashed, stopCh,
               poolInformersRun, poolSynced, podStopChans, podChans, lastEvent >>

NoEvent == [type |-> "", selector |-> ""]

\* the listeners of the proxy: rank 0 is the main one, the others the siblings
Ranks == 0 .. (DataParallelSize - 1)

\* no handler: what prefillerProxyHandler returns besides an error
NoHandler == [id |-> 0, target |-> EmptyString]

NoCall == [hostPort |-> EmptyString, err |-> FALSE, handler |-> NoHandler]

NoRequest ==
    [method |-> "", path |-> "", hostPort |-> EmptyString, url |-> EmptyString,
     dataParallel |-> EmptyString, xRequestID |-> << >>, body |-> DocEmpty]

NoSaved ==
    [streamValue |-> JNull, streamOk |-> FALSE,
     streamOptionsValue |-> JNull, streamOptionsOk |-> FALSE,
     maxTokensValue |-> JNull, maxTokensOk |-> FALSE]

\* an error body as errors.go writes it ("" object: not an error envelope)
NoBody == [object |-> "", type |-> "", code |-> 0, text |-> ""]

\* a ResponseWriter nothing was written to
NewWriter == [statusCode |-> 0, body |-> NoBody]

\* &bufferedResponseWriter{}
NewBufferedResponseWriter == [statusCode |-> 0, buffer |-> DocEmpty]

\* bufferedResponseWriter.WriteHeader
BufferedWriteHeader(bw, statusCode) == [bw EXCEPT !.statusCode = statusCode]

\* bufferedResponseWriter.Write
BufferedWrite(bw, b) ==
    [bw EXCEPT !.statusCode = IF bw.statusCode = 0 THEN 200 ELSE bw.statusCode,
               !.buffer = b]

\* the state after construction, but for the peer-proxy cache
\* defaultLRUSize
defaultLRUSize == 1024

\* no call of Score yet
NoScore == [prefix |-> [found |-> FALSE, servers |-> 0], pods |-> << >>, scores |-> << >>]

\* NewNoHitLRU: an empty cache of params.LRUSize entries, of defaultLRUSize ones
\* when the parameter is not positive, and an empty plugin state
NewNoHitLRU(paramsLRUSize) ==
    /\ lruSize = (IF paramsLRUSize > 0 THEN paramsLRUSize ELSE defaultLRUSize)
    /\ lruCache = << >>
    /\ pluginState = << >>
    /\ inCycle = {}
    /\ lastScore = NoScore
    /\ coldOrder = << >>

\* no request is with the scheduler
NoLLMRequest ==
    /\ clientHeaders = << >>
    /\ requestHeaders = << >>
    /\ profileResults = << >>
    /\ prePc = "idle"
    /\ sidecarTarget = EmptyString

\* the largest data-parallel degree tried
MaxSize == 3

\* the listeners a data-parallel degree up to MaxSize can give
AllRanks == 0 .. (MaxSize - 1)

\* no listener has looked its handler up
NoLookup == [r \in AllRanks |-> EmptyString]

\* Server.Start has run startDataParallel for the flags Port, VLLMPort and
\* DataParallelSize and has handed every listener to the group
Started ==
    /\ srvPort = Itoa(Port)
    /\ srvDecoderPort = Itoa(VLLMPort)
    /\ dpSize = DataParallelSize
    /\ dpProxies = dataParallelProxies
    /\ startPc = "wait"
    /\ dpIdx = 0
    /\ rankPc = [r \in AllRanks |-> IF r \in Ranks THEN "started" ELSE "none"]
    /\ dpLookup = NoLookup

InitRest ==
    /\ pc = "idle"
    /\ handledBy = ""
    /\ req = NoRequest
    /\ prefillPodHostPort = EmptyString
    /\ completionRequest = NoFields
    /\ saved = NoSaved
    /\ uuidStr = 0
    /\ pw = NewBufferedResponseWriter
    /\ w = NewWriter
    /\ prefillReqs = <<>>
    /\ decodeReqs = <<>>
    /\ nextUUID = 0
    /\ enabled \in BOOLEAN
    /\ allowedTargets = {}
    /\ podInformers = <<>>
    /\ poolStore = <<>>
    /\ lastCall = NoCall
    /\ ctxDone = FALSE
    /\ listenerPc = [r \in Ranks |-> "init"]
    /\ shutdownPc = [r \in Ranks |-> "none"]
    /\ startResult = ""
    /\ crashed = FALSE
    /\ stopCh = 0
    /\ poolInformersRun = 0
    /\ poolSynced = FALSE
    /\ podStopChans = <<>>
    /\ podChans = <<>>
    /\ lastEvent = NoEvent
    /\ goOp = [g \in Goroutines |-> ""]
    /\ goPc = [g \in Goroutines |-> 0]
    /\ allowedTargetsMu = Unlocked
    /\ podInformersMu = Unlocked
    /\ snap = [g \in Goroutines |-> << >>]
    /\ isAllowedCall = NoIsAllowedCall
    /\ inFlight = [g \in Servers |-> NoAdd]

\* the state after construction and start-up
InitOther ==
    /\ InitRest
    /\ Started
    /\ NewNoHitLRU(0)
    /\ NoLLMRequest

\* the state after construction
Init ==
    /\ InitOther
    /\ prefillerProxies = <<>>
    /\ proxiesCreated = 0

(***************************************************************************)
(* Routing (createRoutes)                                                  *)
(***************************************************************************)
\* the handler http.ServeMux picks among "GET /health", "POST /v1/chat/completions",
\* "POST /v1/completions" and "/"
Route_GetOnly(method, path) ==
    IF cleanPath(path) # path THEN "redirect"
    ELSE IF method = "GET" /\ path = "/health" THEN "health"
    ELSE IF method = "POST" /\ path \in {ChatCompletionsPath, CompletionsPath} THEN "chat"
    ELSE "decoder"

\* the ServeMux redirects a path that is not clean to the cleaned one; a
\* pattern with method GET matches HEAD as well; "/" matches what is left
Route(method, path) ==
    IF cleanPath(path) # path THEN "redirect"
    ELSE IF method \in {"GET", "HEAD"} /\ path = "/health" THEN "health"
    ELSE IF method = "POST" /\ path \in {ChatCompletionsPath, CompletionsPath} THEN "chat"
    ELSE "decoder"

\* the model serves one request after the other: a request's envelope is owned
\* by its goroutine, and requests share only the allowlist, which they read
Accepting == pc = "idle"

\* the request's envelope, as it is before a handler runs
FreshEnvelope ==
    /\ prefillPodHostPort' = EmptyString
    /\ completionRequest' = NoFields
    /\ saved' = NoSaved
    /\ uuidStr' = 0
    /\ pw' = NewBufferedResponseWriter

\* "GET /health": 200, empty body
healthHandler ==
    /\ Accepting
    /\ \E method \in Methods, path \in Paths, hp \in HostPortHeaders, url \in URLHeaders :
          /\ Route(method, path) = "health"
          /\ req' = [method |-> method, path |-> path, hostPort |-> hp, url |-> url,
                     dataParallel |-> EmptyString, xRequestID |-> << >>,
                     body |-> DocEmpty]
    /\ FreshEnvelope
    /\ w' = [NewWriter EXCEPT !.statusCode = 200]
    /\ prefillReqs' = <<>>
    /\ decodeReqs' = <<>>
    /\ pc' = "done"
    /\ handledBy' = "health"
    /\ UNCHANGED << nextUUID, allowlistVars >>
    /\ UNCHANGED << cacheVars, extVars >>
    /\ UNCHANGED lifeVars

\* the ServeMux's own answer to a path that is not clean: 301 to the cleaned
\* path, no handler of createRoutes runs
muxRedirect ==
    /\ Accepting
    /\ \E method \in Methods, path \in Paths, hp \in HostPortHeaders :
          /\ Route(method, path) = "redirect"
          /\ req' = [method |-> method, path |-> path, hostPort |-> hp, url |-> EmptyString,
                     dataParallel |-> EmptyString, xRequestID |-> << >>,
                     body |-> DocEmpty]
          /\ w' = [statusCode |-> 301, body |-> [NoBody EXCEPT !.text = cleanPath(path)]]
    /\ FreshEnvelope
    /\ prefillReqs' = <<>>
    /\ decodeReqs' = <<>>
    /\ pc' = "done"
    /\ handledBy' = "redirect"
    /\ UNCHANGED << nextUUID, allowlistVars >>
    /\ UNCHANGED << cacheVars, extVars >>
    /\ UNCHANGED lifeVars

\* "/": every other method and path goes to s.decoderProxy with the request as it is
decoderProxyHandler ==
    /\ Accepting
    /\ \E method \in Methods, path \in Paths, hp \in HostPortHeaders, url \in URLHeaders,
          doc \in ClientDocs :
          /\ Route(method, path) = "decoder"
          /\ req' = [method |-> method, path |-> path, hostPort |-> hp, url |-> url,
                     dataParallel |-> EmptyString, xRequestID |-> << >>, body |-> doc]
          /\ decodeReqs' = << [to |-> DecoderURL(0), requestID |-> 0,
                                xRequestID |-> << >>, body |-> doc] >>
    /\ FreshEnvelope
    /\ w' = NewWriter
    /\ prefillReqs' = <<>>
    /\ pc' = "decoding"
    /\ handledBy' = "decoderProxy"
    /\ UNCHANGED << nextUUID, allowlistVars >>
    /\ UNCHANGED << cacheVars, extVars >>
    /\ UNCHANGED lifeVars

(***************************************************************************)
(* errors.go                                                               *)
(***************************************************************************)
\* errorJSONInvalid: the vLLM-shaped error body with status 400
errorJSONInvalid ==
    [statusCode |-> 400,
     body |-> [object |-> "error", type |-> "BadRequestError", code |-> 400, text |-> "err"]]

\* errorBadGateway: the error body with status 502
errorBadGateway ==
    [statusCode |-> 502,
     body |-> [object |-> "error", type |-> "BadGateway", code |-> 502, text |-> "err"]]

(***************************************************************************)
(* NIXL v2 protocol runner (runNIXLProtocolV2)                             *)
(***************************************************************************)
\* the kv_transfer_params the runner puts into the prefill body
PrefillKVTransferParams ==
    JObj([do_remote_decode  |-> JBool(TRUE),
          do_remote_prefill |-> JBool(FALSE),
          remote_engine_id  |-> JNull,
          remote_block_ids  |-> JNull,
          remote_host       |-> JNull,
          remote_port       |-> JNull])

\* streamValue, streamOk := completionRequest[requestFieldStream] and the two like it
SaveOriginals(m) ==
    [streamValue        |-> MapGet(m, requestFieldStream),
     streamOk           |-> MapHas(m, requestFieldStream),
     streamOptionsValue |-> MapGet(m, requestFieldStreamOptions),
     streamOptionsOk    |-> MapHas(m, requestFieldStreamOptions),
     maxTokensValue     |-> MapGet(m, requestFieldMaxTokens),
     maxTokensOk        |-> MapHas(m, requestFieldMaxTokens)]

\* the rewriting of completionRequest into the prefill body
PrefillRewrite_KeepMaxTokens(m) ==
    LET m1 == MapSet(m, requestFieldKVTransferParams, PrefillKVTransferParams)
        m2 == MapSet(m1, requestFieldStream, JBool(FALSE))
        m3 == MapDelete(m2, requestFieldStreamOptions)
    IN  m3

PrefillRewrite_KeepStreamOptions(m) ==
    LET m1 == MapSet(m, requestFieldKVTransferParams, PrefillKVTransferParams)
        m2 == MapSet(m1, requestFieldStream, JBool(FALSE))
        m4 == MapSet(m2, requestFieldMaxTokens, JNum(1))
    IN  m4

PrefillRewrite_KeepClientKV(m) ==
    LET m1 == IF MapHas(m, requestFieldKVTransferParams) THEN m
              ELSE MapSet(m, requestFieldKVTransferParams, PrefillKVTransferParams)
        m2 == MapSet(m1, requestFieldStream, JBool(FALSE))
        m3 == MapDelete(m2, requestFieldStreamOptions)
        m4 == MapSet(m3, requestFieldMaxTokens, JNum(1))
    IN  m4

PrefillRewrite(m) ==
    LET m1 == MapSet(m, requestFieldKVTransferParams, PrefillKVTransferParams)
        m2 == MapSet(m1, requestFieldStream, JBool(FALSE))
        m3 == MapDelete(m2, requestFieldStreamOptions)
        m4 == MapSet(m3, requestFieldMaxTokens, JNum(1))
    IN  m4

\* the rewriting of completionRequest (as the prefill stage left it) into the decode body
DecodeRewrite_DropStreamOptions(m, sv, pKVTransferParams) ==
    LET m1 == MapDelete(m, requestFieldStream)
        m2 == IF sv.streamOk THEN MapSet(m1, requestFieldStream, sv.streamValue) ELSE m1
        m4 == MapDelete(m2, requestFieldMaxTokens)
        m5 == IF sv.maxTokensOk THEN MapSet(m4, requestFieldMaxTokens, sv.maxTokensValue) ELSE m4
        m6 == MapSet(m5, requestFieldKVTransferParams, pKVTransferParams)
    IN  m6

DecodeRewrite_KeepPrefillKV(m, sv, pKVTransferParams) ==
    LET m1 == MapDelete(m, requestFieldStream)
        m2 == IF sv.streamOk THEN MapSet(m1, requestFieldStream, sv.streamValue) ELSE m1
        m3 == IF sv.streamOptionsOk
              THEN MapSet(m2, requestFieldStreamOptions, sv.streamOptionsValue) ELSE m2
        m4 == MapDelete(m3, requestFieldMaxTokens)
        m5 == IF sv.maxTokensOk THEN MapSet(m4, requestFieldMaxTokens, sv.maxTokensValue) ELSE m4
    IN  m5

DecodeRewrite(m, sv, pKVTransferParams) ==
    LET m1 == MapDelete(m, requestFieldStream)
        m2 == IF sv.streamOk THEN MapSet(m1, requestFieldStream, sv.streamValue) ELSE m1
        m3 == IF sv.streamOptionsOk
              THEN MapSet(m2, requestFieldStreamOptions, sv.streamOptionsValue) ELSE m2
        m4 == MapDelete(m3, requestFieldMaxTokens)
        m5 == IF sv.maxTokensOk THEN MapSet(m4, requestFieldMaxTokens, sv.maxTokensValue) ELSE m4
        m6 == MapSet(m5, requestFieldKVTransferParams, pKVTransferParams)
    IN  m6

\* a 2xx answer lets the runner go on: the status check after the prefill call
PrefillFailed_OffByOne(statusCode) == statusCode < 200 \/ statusCode > 300

PrefillFailed(statusCode) == statusCode < 200 \/ statusCode >= 300

\* uuid.NewUUID after n identifiers were handed out: one not handed out before
NewUUID_Reused(n) == IF n = 0 THEN 1 ELSE n

NewUUID(n) == n + 1

\* w.WriteHeader(statusCode) on the client's ResponseWriter, nothing written before
WriteHeader_BadGateway(wr, statusCode) == [wr EXCEPT !.statusCode = 502]

WriteHeader(wr, statusCode) == [wr EXCEPT !.statusCode = statusCode]

\* prefillerProxyHandler: the host the handler proxies to, or an error
prefillerProxyHandler(hostPort) ==
    LET cut == CutPrefix(hostPort, HTTPPrefix)
    IN  [err |-> URLParseFails(cut), target |-> cut]

\* the runner ends before any sub-request: the response is written, nothing is sent
RunnerEndsEarly(response, m, sv, uuid) ==
    /\ w' = response
    /\ completionRequest' = m
    /\ saved' = sv
    /\ uuidStr' = uuid
    /\ nextUUID' = IF uuid # 0 THEN uuid ELSE nextUUID
    /\ pw' = NewBufferedResponseWriter
    /\ prefillReqs' = <<>>
    /\ decodeReqs' = <<>>
    /\ pc' = "done"

\* runNIXLProtocolV2 from its entry to prefillHandler.ServeHTTP(pw, preq)
runNIXLProtocolV2Prefill(hostPort, xRequestID, doc, uuidOK) ==
    LET u       == Unmarshal(doc)
        uuid    == NewUUID(nextUUID)
        sv      == SaveOriginals(u.m)
        pm      == PrefillRewrite(u.m)
        handler == prefillerProxyHandler(hostPort)
    IN  /\ nextUUID < MaxUUID
        /\ IF doc.kind = "unreadable"
           THEN RunnerEndsEarly([statusCode |-> 400,
                                 body |-> [NoBody EXCEPT !.text = "err"]],
                                NoFields, NoSaved, 0)
           ELSE IF u.err
           THEN RunnerEndsEarly(errorJSONInvalid, NoFields, NoSaved, 0)
           ELSE IF ~uuidOK
           THEN RunnerEndsEarly(errorBadGateway, NoFields, NoSaved, 0)
           ELSE IF u.isNil
           THEN \* assignment to an entry of a nil map panics; net/http recovers
                \* the panic and drops the connection without a response
                /\ w' = NewWriter
                /\ completionRequest' = NoFields
                /\ saved' = sv
                /\ uuidStr' = uuid
                /\ nextUUID' = uuid
                /\ pw' = NewBufferedResponseWriter
                /\ prefillReqs' = <<>>
                /\ decodeReqs' = <<>>
                /\ pc' = "aborted"
           ELSE IF handler.err
           THEN RunnerEndsEarly(errorBadGateway, pm, sv, uuid)
           ELSE /\ w' = NewWriter
                /\ completionRequest' = pm
                /\ saved' = sv
                /\ uuidStr' = uuid
                /\ nextUUID' = uuid
                /\ pw' = NewBufferedResponseWriter
                /\ prefillReqs' = << [to |-> handler.target, requestID |-> uuid,
                                      xRequestID |-> HeaderAdd(xRequestID, uuid),
                                      body |-> Marshal(pm)] >>
                /\ decodeReqs' = <<>>
                /\ pc' = "prefilling"

(***************************************************************************)
(* Chat completions dispatcher                                             *)
(***************************************************************************)
\* the prefill target: x-prefiller-host-port, or x-prefiller-url when that is empty
ReadPrefillTarget_URLFirst(hostPortHeader, urlHeader) ==
    IF urlHeader # EmptyString THEN urlHeader ELSE hostPortHeader

ReadPrefillTarget(hostPortHeader, urlHeader) ==
    IF hostPortHeader # EmptyString THEN hostPortHeader ELSE urlHeader

\* chatCompletionsHandler, with the protocol runner up to the prefill call
chatCompletionsHandler ==
    /\ Accepting
    /\ \E method \in Methods, path \in Paths, hp \in HostPortHeaders, url \in URLHeaders,
          dp \in DataParallelHeaders, uuidOK \in BOOLEAN :
       \E doc \in (IF dp = EmptyString THEN ClientDocs ELSE DataParallelDocs) :
       \E xRequestID \in XRequestIDs(dp, doc) :
          LET target == ReadPrefillTarget(hp, url)
          IN  /\ Route(method, path) = "chat"
              /\ req' = [method |-> method, path |-> path, hostPort |-> hp, url |-> url,
                         dataParallel |-> dp, xRequestID |-> xRequestID, body |-> doc]
              /\ prefillPodHostPort' = target
              /\ IF target = EmptyString
                 THEN \* skip disaggregated prefill
                      /\ handledBy' = "passthrough"
                      /\ decodeReqs' = << [to |-> DecoderURL(0), requestID |-> 0,
                                            xRequestID |-> xRequestID, body |-> doc] >>
                      /\ prefillReqs' = <<>>
                      /\ w' = NewWriter
                      /\ pc' = "decoding"
                      /\ completionRequest' = NoFields
                      /\ saved' = NoSaved
                      /\ uuidStr' = 0
                      /\ pw' = NewBufferedResponseWriter
                      /\ UNCHANGED nextUUID
                 ELSE IF ~IsAllowed(enabled, allowedTargets, target)
                 THEN /\ handledBy' = "forbidden"
                      /\ w' = [statusCode |-> 403,
                               body |-> [NoBody EXCEPT !.text =
                                 "Forbidden: prefill target not allowed by SSRF protection"]]
                      /\ decodeReqs' = <<>>
                      /\ prefillReqs' = <<>>
                      /\ pc' = "done"
                      /\ completionRequest' = NoFields
                      /\ saved' = NoSaved
                      /\ uuidStr' = 0
                      /\ pw' = NewBufferedResponseWriter
                      /\ UNCHANGED nextUUID
                 ELSE /\ handledBy' = "runner"
                      /\ runNIXLProtocolV2Prefill(target, xRequestID, doc, uuidOK)
    /\ UNCHANGED allowlistVars
    /\ UNCHANGED << cacheVars, extVars >>
    /\ UNCHANGED lifeVars

\* the prefill peer answers through the reverse proxy, which writes the status
\* and then the body into pw (its error handler writes 502 and no body)
PrefillerServe ==
    /\ pc = "prefilling"
    /\ \E statusCode \in PrefillStatuses, doc \in PrefillResponseDocs \cup {DocEmpty} :
          pw' = IF doc = DocEmpty
                THEN BufferedWriteHeader(pw, statusCode)
                ELSE BufferedWrite(BufferedWriteHeader(pw, statusCode), doc)
    /\ pc' = "prefilled"
    /\ UNCHANGED << handledBy, req, prefillPodHostPort, completionRequest, saved, uuidStr, w,
                    prefillReqs, decodeReqs, nextUUID, allowlistVars >>
    /\ UNCHANGED << cacheVars, extVars >>
    /\ UNCHANGED lifeVars

\* runNIXLProtocolV2 from the status check to s.decoderProxy.ServeHTTP(w, dreq)
runNIXLProtocolV2Decode ==
    /\ pc = "prefilled"
    /\ LET u  == Unmarshal(pw.buffer)
           dm == DecodeRewrite(completionRequest, saved,
                               MapGet(u.m, requestFieldKVTransferParams))
       IN  IF PrefillFailed(pw.statusCode)
           THEN /\ w' = WriteHeader(w, pw.statusCode)
                /\ pc' = "done"
                /\ UNCHANGED << completionRequest, decodeReqs >>
           ELSE IF u.err
           THEN /\ w' = errorJSONInvalid
                /\ pc' = "done"
                /\ UNCHANGED << completionRequest, decodeReqs >>
           ELSE /\ completionRequest' = dm
                /\ decodeReqs' = Append(decodeReqs,
                                        [to |-> DecoderURL(0), requestID |-> uuidStr,
                                         xRequestID |-> HeaderAdd(req.xRequestID, uuidStr),
                                         body |-> Marshal(dm)])
                /\ pc' = "decoding"
                /\ UNCHANGED w
    /\ UNCHANGED << handledBy, req, prefillPodHostPort, saved, uuidStr, pw, prefillReqs, nextUUID,
                    allowlistVars >>
    /\ UNCHANGED << cacheVars, extVars >>
    /\ UNCHANGED lifeVars

\* the local decoder answers through s.decoderProxy, which copies the response
\* to the client (its error handler writes 502)
DecoderServe ==
    /\ pc = "decoding"
    /\ \E statusCode \in DecoderStatuses :
          w' = [statusCode |-> statusCode,
                body |-> IF statusCode = 502 THEN NoBody
                         ELSE [NoBody EXCEPT !.text = "decoder response"]]
    /\ pc' = "done"
    /\ UNCHANGED << handledBy, req, prefillPodHostPort, completionRequest, saved, uuidStr, pw,
                    prefillReqs, decodeReqs, nextUUID, allowlistVars >>
    /\ UNCHANGED << cacheVars, extVars >>
    /\ UNCHANGED lifeVars

(***************************************************************************)
(* Allowlist watcher callbacks.  The informers run only when SSRF          *)
(* protection is enabled (Start returns at once otherwise).                *)
(***************************************************************************)
\* createPodInformer: the pool's informer is replaced by a new one, whose store
\* is empty until its list and watch deliver pods
createPodInformer(informers, poolName) == MapSet(informers, poolName, <<>>)

\* updatePodsForPool: nothing without spec.selector, else a new pod informer
updatePodsForPool(informers, poolName, hasSelector) ==
    IF ~hasSelector THEN informers ELSE createPodInformer(informers, poolName)

onInferencePoolAdd ==
    /\ enabled
    /\ PoolName \notin DOMAIN poolStore
    /\ \E hasSelector \in BOOLEAN :
          /\ poolStore' = MapSet(poolStore, PoolName, hasSelector)
          /\ podInformers' = updatePodsForPool(podInformers, PoolName, hasSelector)
    /\ UNCHANGED << reqVars, enabled, allowedTargets >>
    /\ UNCHANGED << cacheVars, extVars >>
    /\ UNCHANGED lifeVars

onInferencePoolUpdate ==
    /\ enabled
    /\ PoolName \in DOMAIN poolStore
    /\ \E hasSelector \in BOOLEAN :
          /\ poolStore' = MapSet(poolStore, PoolName, hasSelector)
          /\ podInformers' = updatePodsForPool(podInformers, PoolName, hasSelector)
    /\ UNCHANGED << reqVars, enabled, allowedTargets >>
    /\ UNCHANGED << cacheVars, extVars >>
    /\ UNCHANGED lifeVars

onInferencePoolDelete ==
    /\ enabled
    /\ PoolName \in DOMAIN poolStore
    /\ poolStore' = MapDelete(poolStore, PoolName)
    /\ podInformers' = MapDelete(podInformers, PoolName)
    /\ allowedTargets' = rebuildAllowlist(podInformers')
    /\ UNCHANGED << reqVars, enabled >>
    /\ UNCHANGED << cacheVars, extVars >>
    /\ UNCHANGED lifeVars

onPodAdd ==
    /\ enabled
    /\ \E poolName \in DOMAIN podInformers, name \in PodNames, ip \in PodIPs :
          /\ name \notin DOMAIN podInformers[poolName]
          /\ podInformers' = MapSet(podInformers, poolName,
                                    MapSet(podInformers[poolName], name, ip))
    /\ allowedTargets' = rebuildAllowlist(podInformers')
    /\ UNCHANGED << reqVars, enabled, poolStore >>
    /\ UNCHANGED << cacheVars, extVars >>
    /\ UNCHANGED lifeVars

onPodUpdate ==
    /\ enabled
    /\ \E poolName \in DOMAIN podInformers, name \in PodNames, ip \in PodIPs :
          /\ name \in DOMAIN podInformers[poolName]
          /\ podInformers' = MapSet(podInformers, poolName,
                                    MapSet(podInformers[poolName], name, ip))
    /\ allowedTargets' = rebuildAllowlist(podInformers')
    /\ UNCHANGED << reqVars, enabled, poolStore >>
    /\ UNCHANGED << cacheVars, extVars >>
    /\ UNCHANGED lifeVars

onPodDelete ==
    /\ enabled
    /\ \E poolName \in DOMAIN podInformers, name \in PodNames :
          /\ name \in DOMAIN podInformers[poolName]
          /\ podInformers' = MapSet(podInformers, poolName,
                                    MapDelete(podInformers[poolName], name))
    /\ allowedTargets' = rebuildAllowlist(podInformers')
    /\ UNCHANGED << reqVars, enabled, poolStore >>
    /\ UNCHANGED << cacheVars, extVars >>
    /\ UNCHANGED lifeVars

\* the handler has returned (or panicked): the envelope is dropped
Finish ==
    /\ pc \in {"done", "aborted"}
    /\ pc' = "idle"
    /\ handledBy' = ""
    /\ req' = NoRequest
    /\ FreshEnvelope
    /\ w' = NewWriter
    /\ prefillReqs' = <<>>
    /\ decodeReqs' = <<>>
    /\ UNCHANGED << nextUUID, allowlistVars >>
    /\ UNCHANGED << cacheVars, extVars >>
    /\ UNCHANGED lifeVars

(***************************************************************************)
(* Peer-proxy cache (Server.prefillerProxies).  Spec takes from             *)
(* prefillerProxyHandler the peer a request is proxied to, which the cache *)
(* content does not influence; SpecCache follows the cache itself under    *)
(* calls that arrive with any input in any order.                          *)
(***************************************************************************)
\* lru.New[string, http.Handler](16)
prefillerProxiesSize == 16

\* inputs of prefillerProxyHandler: the prefill targets requests may carry
PrefillerTargets ==
    ((HostPortHeaders \cup URLHeaders) \ {EmptyString}) \cup { <<"10.0.0.6", ":", "9000">> }

LRUContains(cache, key) == \E i \in DOMAIN cache : cache[i].key = key

LRUIndex(cache, key) == CHOOSE i \in DOMAIN cache : cache[i].key = key

LRURemove(cache, i) == SubSeq(cache, 1, i - 1) \o SubSeq(cache, i + 1, Len(cache))

\* lru.Cache.Get: on a hit the entry becomes the most recently used one
LRUGet(cache, key) ==
    IF LRUContains(cache, key)
    THEN LET i == LRUIndex(cache, key)
         IN  [ok |-> TRUE, value |-> cache[i].value,
              cache |-> << cache[i] >> \o LRURemove(cache, i)]
    ELSE [ok |-> FALSE, value |-> NoHandler, cache |-> cache]

LRUAdd_NoEvict(cache, key, value) ==
    IF LRUContains(cache, key)
    THEN << [key |-> key, value |-> value] >> \o LRURemove(cache, LRUIndex(cache, key))
    ELSE << [key |-> key, value |-> value] >> \o cache

\* lru.Cache.Add: the value of a present key is replaced; a new entry goes to
\* the front and the least recently used one is evicted beyond the capacity
LRUAdd(cache, key, value) ==
    IF LRUContains(cache, key)
    THEN << [key |-> key, value |-> value] >> \o LRURemove(cache, LRUIndex(cache, key))
    ELSE LET c == << [key |-> key, value |-> value] >> \o cache
         IN  IF Len(c) > prefillerProxiesSize THEN SubSeq(c, 1, prefillerProxiesSize) ELSE c

\* one call of prefillerProxyHandler(hostPort), with its effect on the cache
callPrefillerProxyHandler ==
    /\ \E hostPort \in PrefillerTargets :
          LET got      == LRUGet(prefillerProxies, hostPort)
              built    == prefillerProxyHandler(hostPort)
              newProxy == [id |-> proxiesCreated + 1, target |-> built.target]
          IN  IF got.ok
              THEN /\ prefillerProxies' = got.cache
                   /\ lastCall' = [hostPort |-> hostPort, err |-> FALSE, handler |-> got.value]
                   /\ UNCHANGED proxiesCreated
              ELSE IF built.err
              THEN /\ lastCall' = [hostPort |-> hostPort, err |-> TRUE, handler |-> NoHandler]
                   /\ UNCHANGED << prefillerProxies, proxiesCreated >>
              ELSE /\ proxiesCreated < MaxProxies
                   /\ prefillerProxies' = LRUAdd(got.cache, built.target, newProxy)
                   /\ proxiesCreated' = proxiesCreated + 1
                   /\ lastCall' = [hostPort |-> hostPort, err |-> FALSE, handler |-> newProxy]
    /\ UNCHANGED << reqVars, allowlistVars >>
    /\ UNCHANGED << lifeVars, extVars >>

NextCache == callPrefillerProxyHandler

SpecCache == Init /\ [][NextCache]_vars

(***************************************************************************)
(* Life cycle (Server.Start, BaseStart, AllowlistValidator.Start and Stop). *)
(* Spec follows requests and watcher callbacks of a running validator;     *)
(* SpecLife follows the listeners from start to shutdown, with the stop    *)
(* channels of the watchers.  Every listener runs BaseStart on the one     *)
(* validator of the server.  The listeners bind their ports.               *)
(***************************************************************************)
\* spec.selector of an InferencePool event ("": the spec has none)
NoSelector == ""

Selectors == {"a", "b"}

\* the pods of the namespace, with the label the selectors look at
ClusterPods == { [name |-> "pod1", ip |-> "10.0.0.5", app |-> "a"] }

\* labels.Selector.Matches
Matches(selector, pod) == pod.app = selector

\* close(ch) for every channel of the set: one more close each
CloseAll_Nothing(chans, ids) == chans

CloseAll(chans, ids) ==
    [i \in DOMAIN chans |->
        IF i \in ids THEN [chans[i] EXCEPT !.closes = @ + 1] ELSE chans[i]]

\* closing a closed channel panics
ClosedTwice(chans) == \E i \in DOMAIN chans : chans[i].closes > 1

\* the channels the table of stop channels holds
StopChansOf(stopChans) == { stopChans[pool] : pool \in DOMAIN stopChans }

\* BaseStart up to the call of AllowlistValidator.Start, which returns at once
\* when disabled and else sets a pool informer running on av.stopCh
avStart(r) ==
    /\ ~crashed
    /\ listenerPc[r] = "init"
    /\ IF ~enabled
       THEN /\ listenerPc' = [listenerPc EXCEPT ![r] = "listen"]
            /\ UNCHANGED poolInformersRun
       ELSE /\ listenerPc' = [listenerPc EXCEPT ![r] = "syncing"]
            /\ poolInformersRun' = poolInformersRun + 1
    /\ UNCHANGED << ctxDone, shutdownPc, startResult, crashed, stopCh, poolSynced,
                    podStopChans, podChans >>
    /\ UNCHANGED << reqVars, allowlistVars, cacheVars, extVars >>
    /\ UNCHANGED lastEvent

\* cache.WaitForCacheSync(av.stopCh, ...): false once av.stopCh is closed, and
\* Start, BaseStart and the group member return the error, which cancels the
\* group's context; true once the pool informer has synced
WaitForCacheSync(r) ==
    /\ ~crashed
    /\ listenerPc[r] = "syncing"
    /\ \/ /\ stopCh > 0
          /\ listenerPc' = [listenerPc EXCEPT ![r] = "returnedErr"]
          /\ ctxDone' = TRUE
       \/ /\ poolSynced
          /\ listenerPc' = [listenerPc EXCEPT ![r] = "listen"]
          /\ UNCHANGED ctxDone
    /\ UNCHANGED << shutdownPc, startResult, crashed, stopCh, poolInformersRun, poolSynced,
                    podStopChans, podChans >>
    /\ UNCHANGED << reqVars, allowlistVars, cacheVars, extVars >>
    /\ UNCHANGED lastEvent

\* the pool informer's first list succeeds (it is made with the start context)
poolInformerSync ==
    /\ ~crashed
    /\ poolInformersRun > 0
    /\ stopCh = 0
    /\ ~ctxDone
    /\ ~poolSynced
    /\ poolSynced' = TRUE
    /\ UNCHANGED << ctxDone, listenerPc, shutdownPc, startResult, crashed, stopCh,
                    poolInformersRun, podStopChans, podChans >>
    /\ UNCHANGED << reqVars, allowlistVars, cacheVars, extVars >>
    /\ UNCHANGED lastEvent

\* BaseStart from net.Listen to server.Serve, the termination goroutine started
Serve(r) ==
    /\ ~crashed
    /\ listenerPc[r] = "listen"
    /\ listenerPc' = [listenerPc EXCEPT ![r] = "serving"]
    /\ shutdownPc' = [shutdownPc EXCEPT ![r] = "waiting"]
    /\ UNCHANGED << ctxDone, startResult, crashed, stopCh, poolInformersRun, poolSynced,
                    podStopChans, podChans >>
    /\ UNCHANGED << reqVars, allowlistVars, cacheVars, extVars >>
    /\ UNCHANGED lastEvent

\* the caller of Server.Start cancels the context
cancel ==
    /\ ~crashed
    /\ ~ctxDone
    /\ ctxDone' = TRUE
    /\ UNCHANGED << listenerPc, shutdownPc, startResult, crashed, stopCh, poolInformersRun,
                    poolSynced, podStopChans, podChans >>
    /\ UNCHANGED << reqVars, allowlistVars, cacheVars, extVars >>
    /\ UNCHANGED lastEvent

\* AllowlistValidator.Stop, first half: under podInformersMu every per-pool
\* stop channel is closed and both tables are replaced by empty ones
Stop_podInformers(r) ==
    /\ ~crashed
    /\ shutdownPc[r] = "waiting"
    /\ ctxDone
    /\ IF ~enabled
       THEN /\ shutdownPc' = [shutdownPc EXCEPT ![r] = "stopped"]
            /\ UNCHANGED << podChans, podStopChans, podInformers, crashed >>
       ELSE /\ podChans' = CloseAll(podChans, StopChansOf(podStopChans))
            /\ podStopChans' = <<>>
            /\ podInformers' = <<>>
            /\ crashed' = ClosedTwice(podChans')
            /\ shutdownPc' = [shutdownPc EXCEPT ![r] = "closeStopCh"]
    /\ UNCHANGED << ctxDone, listenerPc, startResult, stopCh, poolInformersRun, poolSynced >>
    /\ UNCHANGED << reqVars, enabled, allowedTargets, poolStore, cacheVars, extVars >>
    /\ UNCHANGED lastEvent

\* AllowlistValidator.Stop, second half: close(av.stopCh)
Stop_stopCh(r) ==
    /\ ~crashed
    /\ shutdownPc[r] = "closeStopCh"
    /\ stopCh' = stopCh + 1
    /\ crashed' = (stopCh' > 1)
    /\ shutdownPc' = [shutdownPc EXCEPT ![r] = "stopped"]
    /\ UNCHANGED << ctxDone, listenerPc, startResult, poolInformersRun, poolSynced,
                    podStopChans, podChans >>
    /\ UNCHANGED << reqVars, allowlistVars, cacheVars, extVars >>
    /\ UNCHANGED lastEvent

\* server.Shutdown: the listener is closed and Serve returns ErrServerClosed,
\* which BaseStart turns into nil
Shutdown(r) ==
    /\ ~crashed
    /\ shutdownPc[r] = "stopped"
    /\ shutdownPc' = [shutdownPc EXCEPT ![r] = "done"]
    /\ listenerPc' = [listenerPc EXCEPT ![r] = "returnedNil"]
    /\ UNCHANGED << ctxDone, startResult, crashed, stopCh, poolInformersRun, poolSynced,
                    podStopChans, podChans >>
    /\ UNCHANGED << reqVars, allowlistVars, cacheVars, extVars >>
    /\ UNCHANGED lastEvent

\* grp.Wait() in Server.Start: the first error of a member, or nil
Wait ==
    /\ ~crashed
    /\ startResult = ""
    /\ \A r \in Ranks : listenerPc[r] \in {"returnedNil", "returnedErr"}
    /\ startResult' = IF \E r \in Ranks : listenerPc[r] = "returnedErr" THEN "error" ELSE "nil"
    /\ UNCHANGED << ctxDone, listenerPc, shutdownPc, crashed, stopCh, poolInformersRun,
                    poolSynced, podStopChans, podChans >>
    /\ UNCHANGED << reqVars, allowlistVars, cacheVars, extVars >>
    /\ UNCHANGED lastEvent

\* a pool informer is running and may call the handlers of the validator
PoolInformerRunning == poolInformersRun > 0 /\ stopCh = 0

\* updatePodsForPool and createPodInformer with the stop channels: nothing
\* without spec.selector; else, under podInformersMu, the pool's informer and
\* stop channel (if any) are closed and deleted, and a new informer with a new
\* stop channel is entered and set running
av_updatePodsForPool_NoClose(selector) ==
    IF selector = NoSelector
    THEN UNCHANGED << podInformers, podStopChans, podChans, crashed >>
    ELSE /\ Len(podChans) < MaxInformers
         /\ podChans' = Append(podChans, [pool |-> PoolName, selector |-> selector,
                                           closes |-> 0])
         /\ UNCHANGED crashed
         /\ podStopChans' = MapSet(podStopChans, PoolName, Len(podChans) + 1)
         /\ podInformers' = updatePodsForPool(podInformers, PoolName, TRUE)

av_updatePodsForPool(selector) ==
    IF selector = NoSelector
    THEN UNCHANGED << podInformers, podStopChans, podChans, crashed >>
    ELSE /\ Len(podChans) < MaxInformers
         /\ LET closed == IF PoolName \in DOMAIN podInformers /\ PoolName \in DOMAIN podStopChans
                          THEN CloseAll(podChans, {podStopChans[PoolName]})
                          ELSE podChans
            IN  /\ podChans' = Append(closed, [pool |-> PoolName, selector |-> selector,
                                               closes |-> 0])
                /\ crashed' = ClosedTwice(closed)
         /\ podStopChans' = MapSet(podStopChans, PoolName, Len(podChans) + 1)
         /\ podInformers' = updatePodsForPool(podInformers, PoolName, TRUE)

av_onInferencePoolAdd ==
    /\ ~crashed
    /\ enabled
    /\ PoolInformerRunning
    /\ PoolName \notin DOMAIN poolStore
    /\ \E selector \in Selectors \cup {NoSelector} :
          /\ poolStore' = MapSet(poolStore, PoolName, selector # NoSelector)
          /\ av_updatePodsForPool(selector)
          /\ lastEvent' = [type |-> "add", selector |-> selector]
    /\ UNCHANGED << ctxDone, listenerPc, shutdownPc, startResult, stopCh, poolInformersRun,
                    poolSynced >>
    /\ UNCHANGED << reqVars, enabled, allowedTargets, cacheVars, extVars >>

av_onInferencePoolUpdate ==
    /\ ~crashed
    /\ enabled
    /\ PoolInformerRunning
    /\ PoolName \in DOMAIN poolStore
    /\ \E selector \in Selectors \cup {NoSelector} :
          /\ poolStore' = MapSet(poolStore, PoolName, selector # NoSelector)
          /\ av_updatePodsForPool(selector)
          /\ lastEvent' = [type |-> "update", selector |-> selector]
    /\ UNCHANGED << ctxDone, listenerPc, shutdownPc, startResult, stopCh, poolInformersRun,
                    poolSynced >>
    /\ UNCHANGED << reqVars, enabled, allowedTargets, cacheVars, extVars >>

av_onInferencePoolDelete_ClosesRoot ==
    /\ ~crashed
    /\ enabled
    /\ PoolInformerRunning
    /\ PoolName \in DOMAIN poolStore
    /\ poolStore' = MapDelete(poolStore, PoolName)
    /\ podChans' = IF PoolName \in DOMAIN podStopChans
                   THEN CloseAll(podChans, {podStopChans[PoolName]})
                   ELSE podChans
    /\ crashed' = ClosedTwice(podChans')
    /\ podStopChans' = MapDelete(podStopChans, PoolName)
    /\ podInformers' = MapDelete(podInformers, PoolName)
    /\ allowedTargets' = rebuildAllowlist(podInformers')
    /\ lastEvent' = [type |-> "delete", selector |-> NoSelector]
    /\ stopCh' = stopCh + 1
    /\ UNCHANGED << ctxDone, listenerPc, shutdownPc, startResult, poolInformersRun,
                    poolSynced >>
    /\ UNCHANGED << reqVars, enabled, cacheVars, extVars >>

\* onInferencePoolDelete with the stop channels
av_onInferencePoolDelete ==
    /\ ~crashed
    /\ enabled
    /\ PoolInformerRunning
    /\ PoolName \in DOMAIN poolStore
    /\ poolStore' = MapDelete(poolStore, PoolName)
    /\ podChans' = IF PoolName \in DOMAIN podStopChans
                   THEN CloseAll(podChans, {podStopChans[PoolName]})
                   ELSE podChans
    /\ crashed' = ClosedTwice(podChans')
    /\ podStopChans' = MapDelete(podStopChans, PoolName)
    /\ podInformers' = MapDelete(podInformers, PoolName)
    /\ allowedTargets' = rebuildAllowlist(podInformers')
    /\ lastEvent' = [type |-> "delete", selector |-> NoSelector]
    /\ UNCHANGED << ctxDone, listenerPc, shutdownPc, startResult, stopCh, poolInformersRun,
                    poolSynced >>
    /\ UNCHANGED << reqVars, enabled, cacheVars, extVars >>

\* a running pod informer lists a pod its selector matches, stores it and
\* calls onPodAdd
av_onPodAdd ==
    /\ ~crashed
    /\ enabled
    /\ \E poolName \in DOMAIN podInformers, pod \in ClusterPods :
          /\ poolName \in DOMAIN podStopChans
          /\ podChans[podStopChans[poolName]].closes = 0
          /\ Matches(podChans[podStopChans[poolName]].selector, pod)
          /\ pod.name \notin DOMAIN podInformers[poolName]
          /\ podInformers' = MapSet(podInformers, poolName,
                                    MapSet(podInformers[poolName], pod.name, pod.ip))
    /\ allowedTargets' = rebuildAllowlist(podInformers')
    /\ UNCHANGED lifeVars
    /\ UNCHANGED << reqVars, enabled, poolStore, cacheVars, extVars >>

\* one listener's BaseStart, and its termination goroutine
BaseStart(r) == avStart(r) \/ WaitForCacheSync(r) \/ Serve(r)

gracefulTermination(r) == Stop_podInformers(r) \/ Stop_stopCh(r) \/ Shutdown(r)

NextLife ==
    \/ \E r \in Ranks : BaseStart(r)
    \/ \E r \in Ranks : gracefulTermination(r)
    \/ Wait
    \/ cancel
    \/ poolInformerSync
    \/ av_onInferencePoolAdd
    \/ av_onInferencePoolUpdate
    \/ av_onInferencePoolDelete
    \/ av_onPodAdd

\* goroutines that can run do run, and a running pod informer delivers the
\* pods it lists; the cluster and the caller owe nothing
SpecLife ==
    /\ Init
    /\ [][NextLife]_vars
    /\ \A r \in Ranks : WF_vars(BaseStart(r)) /\ WF_vars(gracefulTermination(r))
    /\ WF_vars(Wait)
    /\ WF_vars(av_onPodAdd)

(***************************************************************************)
(* The validator's two locks.  Each operation is the sequence of the       *)
(* instructions it runs that take or release a lock or that touch what     *)
(* the locks guard; a goroutine runs one instruction per step.             *)
(***************************************************************************)
AMu == "allowedTargetsMu"

PMu == "podInformersMu"

Ins(i, mu) == [i |-> i, mu |-> mu]

\* rebuildAllowlist: Lock and deferred Unlock of allowedTargetsMu around
\* everything, RLock and deferred RUnlock of podInformersMu around the loop
rebuildAllowlistCode ==
    << Ins("Lock", AMu), Ins("clear", ""), Ins("RLock", PMu), Ins("list", ""),
       Ins("insertIP", ""), Ins("insertName", ""), Ins("RUnlock", PMu), Ins("Unlock", AMu) >>

Code_DeleteHoldsLock(op) ==
    CASE op = "IsAllowed" ->
            IF enabled
            THEN << Ins("RLock", AMu), Ins("Has", ""), Ins("RUnlock", AMu) >>
            ELSE << Ins("returnTrue", "") >>
      [] op = "rebuildAllowlist" -> rebuildAllowlistCode
      [] op = "createPodInformer" ->
            << Ins("Lock", PMu), Ins("replace", ""), Ins("Unlock", PMu) >>
      [] op = "onInferencePoolDelete" ->
            << Ins("Lock", PMu), Ins("remove", "") >> \o rebuildAllowlistCode
               \o << Ins("Unlock", PMu) >>
      [] op = "Stop" ->
            IF enabled
            THEN << Ins("Lock", PMu), Ins("closeAll", ""), Ins("Unlock", PMu),
                    Ins("closeRoot", "") >>
            ELSE << Ins("return", "") >>

\* the instructions of each operation, in program order
Code(op) ==
    CASE op = "IsAllowed" ->
            IF enabled
            THEN << Ins("RLock", AMu), Ins("Has", ""), Ins("RUnlock", AMu) >>
            ELSE << Ins("returnTrue", "") >>
      [] op = "rebuildAllowlist" -> rebuildAllowlistCode
      [] op = "createPodInformer" ->
            << Ins("Lock", PMu), Ins("replace", ""), Ins("Unlock", PMu) >>
      [] op = "onInferencePoolDelete" ->
            << Ins("Lock", PMu), Ins("remove", ""), Ins("Unlock", PMu) >>
               \o rebuildAllowlistCode
      [] op = "Stop" ->
            IF enabled
            THEN << Ins("Lock", PMu), Ins("closeAll", ""), Ins("Unlock", PMu),
                    Ins("closeRoot", "") >>
            ELSE << Ins("return", "") >>

\* the instruction goroutine g is at
At(g) == IF goOp[g] = "" THEN Ins("", "") ELSE Code(goOp[g])[goPc[g]]

MuOf(mu) == IF mu = AMu THEN allowedTargetsMu ELSE podInformersMu

\* sync.RWMutex: a goroutine blocked in Lock keeps new readers out
WriterWaits(mu) == \E g \in Goroutines : At(g) = Ins("Lock", mu)

CanLock(mu) == MuOf(mu).w = "" /\ MuOf(mu).r = {}

CanRLock_Always(mu) == TRUE

CanRLock(mu) == MuOf(mu).w = "" /\ ~WriterWaits(mu)

\* what the instruction does to the two locks
LockEffect(g, ins) ==
    LET m   == MuOf(ins.mu)
        new == CASE ins.i = "Lock"    -> [m EXCEPT !.w = g]
                 [] ins.i = "Unlock"  -> [m EXCEPT !.w = ""]
                 [] ins.i = "RLock"   -> [m EXCEPT !.r = @ \cup {g}]
                 [] ins.i = "RUnlock" -> [m EXCEPT !.r = @ \ {g}]
                 [] OTHER             -> m
    IN  /\ ins.i = "Lock" => CanLock(ins.mu)
        /\ ins.i = "RLock" => CanRLock(ins.mu)
        /\ allowedTargetsMu' = IF ins.mu = AMu THEN new ELSE allowedTargetsMu
        /\ podInformersMu' = IF ins.mu = PMu THEN new ELSE podInformersMu

\* the pods of a store snapshot that have an IP
WithIP(informers) ==
    { pn \in (DOMAIN informers) \X PodNames :
         pn[2] \in DOMAIN informers[pn[1]] /\ informers[pn[1]][pn[2]] # "" }

\* what the instruction does to the allowed set
AllowedEffect(g, ins) ==
    allowedTargets' =
       CASE ins.i = "clear"      -> {}
         [] ins.i = "insertIP"   ->
               allowedTargets \cup { << snap[g][pn[1]][pn[2]] >> : pn \in WithIP(snap[g]) }
         [] ins.i = "insertName" ->
               allowedTargets \cup { << pn[2] >> : pn \in { q \in WithIP(snap[g]) : q[2] # "" } }
         [] OTHER                -> allowedTargets

\* what the instruction does to the tables of pod informers and stop channels
TableEffect(g, ins) ==
    CASE ins.i = "replace" ->
            av_updatePodsForPool("a")
      [] ins.i = "remove" ->
            /\ podChans' = IF PoolName \in DOMAIN podStopChans
                           THEN CloseAll(podChans, {podStopChans[PoolName]})
                           ELSE podChans
            /\ crashed' = ClosedTwice(podChans')
            /\ podStopChans' = MapDelete(podStopChans, PoolName)
            /\ podInformers' = MapDelete(podInformers, PoolName)
      [] ins.i = "closeAll" ->
            /\ podChans' = CloseAll(podChans, StopChansOf(podStopChans))
            /\ crashed' = ClosedTwice(podChans')
            /\ podStopChans' = << >>
            /\ podInformers' = << >>
      [] OTHER -> UNCHANGED << podChans, crashed, podStopChans, podInformers >>

\* one instruction of goroutine g
Step(g) ==
    /\ ~crashed
    /\ goOp[g] # ""
    /\ LET ins == At(g)
       IN  /\ LockEffect(g, ins)
           /\ AllowedEffect(g, ins)
           /\ TableEffect(g, ins)
           /\ snap' = CASE ins.i = "list"    -> [snap EXCEPT ![g] = podInformers]
                         [] ins.i = "RUnlock" -> [snap EXCEPT ![g] = << >>]
                         [] OTHER             -> snap
           /\ stopCh' = IF ins.i = "closeRoot" THEN stopCh + 1 ELSE stopCh
           /\ isAllowedCall' =
                 CASE ins.i = "Has" ->
                         [isAllowedCall EXCEPT
                            !.returned = TRUE,
                            !.allowed = normalizeHostPort(isAllowedCall.hostPort)
                                           \in allowedTargets]
                   [] ins.i = "returnTrue" ->
                         [isAllowedCall EXCEPT !.returned = TRUE, !.allowed = TRUE]
                   [] OTHER -> isAllowedCall
    /\ IF goPc[g] = Len(Code(goOp[g]))
       THEN /\ goOp' = [goOp EXCEPT ![g] = ""]
            /\ goPc' = [goPc EXCEPT ![g] = 0]
       ELSE /\ goPc' = [goPc EXCEPT ![g] = @ + 1]
            /\ UNCHANGED goOp
    /\ UNCHANGED << reqVars, enabled, poolStore, cacheVars, inFlight, startVars, schedVars, hdrVars >>
    /\ UNCHANGED << ctxDone, listenerPc, shutdownPc, startResult, poolInformersRun,
                    poolSynced, lastEvent >>

\* goroutine g enters operation op
Enter(g, op) ==
    /\ goOp[g] = ""
    /\ goOp' = [goOp EXCEPT ![g] = op]
    /\ goPc' = [goPc EXCEPT ![g] = 1]

\* the proxy asks IsAllowed about the prefill target of a request
callIsAllowed ==
    /\ ~crashed
    /\ Enter("request", "IsAllowed")
    /\ \E hostPort \in { << "10.0.0.5", ":", "9000" >> } :
          isAllowedCall' = [hostPort |-> hostPort, returned |-> FALSE, allowed |-> FALSE]
    /\ UNCHANGED << reqVars, allowlistVars, cacheVars, lifeVars >>
    /\ UNCHANGED << allowedTargetsMu, podInformersMu, snap, inFlight, startVars, schedVars, hdrVars >>

\* the pool informer delivers an added or updated pool, whose selector is app=a
poolEvent_createPodInformer ==
    /\ ~crashed
    /\ enabled
    /\ stopCh = 0
    /\ Len(podChans) < MaxInformers
    /\ Enter("poolInformer", "createPodInformer")
    /\ poolStore' = MapSet(poolStore, PoolName, TRUE)
    /\ UNCHANGED << reqVars, enabled, allowedTargets, podInformers, cacheVars, lifeVars >>
    /\ UNCHANGED << allowedTargetsMu, podInformersMu, snap, isAllowedCall, inFlight, startVars, schedVars, hdrVars >>

\* the pool informer delivers the deletion of the pool
poolEvent_onInferencePoolDelete ==
    /\ ~crashed
    /\ enabled
    /\ stopCh = 0
    /\ PoolName \in DOMAIN poolStore
    /\ Enter("poolInformer", "onInferencePoolDelete")
    /\ poolStore' = MapDelete(poolStore, PoolName)
    /\ UNCHANGED << reqVars, enabled, allowedTargets, podInformers, cacheVars, lifeVars >>
    /\ UNCHANGED << allowedTargetsMu, podInformersMu, snap, isAllowedCall, inFlight, startVars, schedVars, hdrVars >>

\* the registered pod informer stores an added or changed pod, or drops a
\* deleted one, and calls onPodAdd, onPodUpdate or onPodDelete
podEvent ==
    /\ ~crashed
    /\ enabled
    /\ PoolName \in DOMAIN podInformers
    /\ Enter("podInformer", "rebuildAllowlist")
    /\ \E name \in PodNames :
          \/ \E ip \in PodIPs :
                /\ name \in DOMAIN podInformers[PoolName] => podInformers[PoolName][name] # ip
                /\ podInformers' = MapSet(podInformers, PoolName,
                                          MapSet(podInformers[PoolName], name, ip))
          \/ /\ name \in DOMAIN podInformers[PoolName]
             /\ podInformers' = MapSet(podInformers, PoolName,
                                       MapDelete(podInformers[PoolName], name))
    /\ UNCHANGED << reqVars, enabled, allowedTargets, poolStore, cacheVars, lifeVars >>
    /\ UNCHANGED << allowedTargetsMu, podInformersMu, snap, isAllowedCall, inFlight, startVars, schedVars, hdrVars >>

\* the context is cancelled and the termination goroutine calls Stop
callStop ==
    /\ ~crashed
    /\ stopCh = 0
    /\ Enter("termination", "Stop")
    /\ UNCHANGED << reqVars, allowlistVars, cacheVars, lifeVars >>
    /\ UNCHANGED << allowedTargetsMu, podInformersMu, snap, isAllowedCall, inFlight, startVars, schedVars, hdrVars >>

NextLock ==
    \/ callIsAllowed
    \/ poolEvent_createPodInformer
    \/ poolEvent_onInferencePoolDelete
    \/ podEvent
    \/ callStop
    \/ \E g \in Goroutines : Step(g)

\* a goroutine that can run does run, and sync.RWMutex starves neither a
\* reader nor a writer
SpecLock ==
    /\ Init
    /\ [][NextLock]_vars
    /\ \A g \in Goroutines : SF_vars(Step(g))

(***************************************************************************)
(* The peer-proxy cache at its capacity, under requests served at the same *)
(* time: lru.Cache locks each Get and each Add, not the pair.              *)
(***************************************************************************)
PeerHosts ==
    << "10.0.1.1", "10.0.1.2", "10.0.1.3", "10.0.1.4", "10.0.1.5", "10.0.1.6",
       "10.0.1.7", "10.0.1.8", "10.0.1.9", "10.0.1.10", "10.0.1.11", "10.0.1.12",
       "10.0.1.13", "10.0.1.14", "10.0.1.15", "10.0.1.16", "10.0.1.17", "10.0.1.18",
       "10.0.1.19", "10.0.1.20" >>

\* the prefill target header the scheduler sets for peer i
Peer(i) == << PeerHosts[i], ":", "9000" >>

PeerIndex(key) == CHOOSE i \in DOMAIN PeerHosts : PeerHosts[i] = key[1]

\* the newest peer a request has named so far (0: none)
NewestPeer ==
    LET seen == { PeerIndex(prefillerProxies[i].key) : i \in DOMAIN prefillerProxies }
                \cup { PeerIndex(inFlight[g].key) : g \in { h \in Servers : inFlight[h] # NoAdd } }
    IN  IF seen = {} THEN 0 ELSE CHOOSE i \in seen : \A j \in seen : j <= i

\* the targets the next request may name: the first peer, the newest one, a
\* new one, the first peer in the legacy form and one that does not parse
NextTargets ==
    { Peer(i) : i \in {1, NewestPeer, NewestPeer + 1}
                        \cap (1 .. MaxPeers) \cap DOMAIN PeerHosts }
    \cup { HTTPPrefix \o Peer(1), << PeerHosts[1], ":", "abc" >> }

\* prefillerProxyHandler up to the new reverse proxy: the cache lookup, and on
\* a miss the key cut and the proxy built
prefillerProxies_Get(g) ==
    /\ inFlight[g] = NoAdd
    /\ \E hostPort \in NextTargets :
          LET got   == LRUGet(prefillerProxies, hostPort)
              built == prefillerProxyHandler(hostPort)
          IN  IF got.ok
              THEN /\ prefillerProxies' = got.cache
                   /\ UNCHANGED << proxiesCreated, inFlight >>
              ELSE IF built.err
              THEN UNCHANGED << prefillerProxies, proxiesCreated, inFlight >>
              ELSE /\ proxiesCreated < MaxExtra
                                         + (IF PeerIndex(built.target) > NewestPeer
                                            THEN PeerIndex(built.target) ELSE NewestPeer)
                   /\ proxiesCreated' = proxiesCreated + 1
                   /\ inFlight' = [inFlight EXCEPT ![g] =
                                      [hostPort |-> hostPort, key |-> built.target,
                                       id |-> proxiesCreated + 1]]
                   /\ UNCHANGED prefillerProxies
    /\ UNCHANGED lastCall
    /\ UNCHANGED << reqVars, allowlistVars, lifeVars, lockVars, startVars, schedVars, hdrVars >>

\* the rest of prefillerProxyHandler: s.prefillerProxies.Add (what the call
\* returns is followed in SpecCache)
prefillerProxies_Add(g) ==
    /\ inFlight[g] # NoAdd
    /\ prefillerProxies' = LRUAdd(prefillerProxies, inFlight[g].key,
                                  [id |-> inFlight[g].id, target |-> inFlight[g].key])
    /\ inFlight' = [inFlight EXCEPT ![g] = NoAdd]
    /\ UNCHANGED << proxiesCreated, lastCall >>
    /\ UNCHANGED << reqVars, allowlistVars, lifeVars, lockVars, startVars, schedVars, hdrVars >>

NextEvict == \E g \in Servers : prefillerProxies_Get(g) \/ prefillerProxies_Add(g)

\* the number of peers that have been served, one after the other, when the
\* traffic followed here begins
WarmPeers == MaxPeers - 4

\* the proxy after serving one request for each of the first peers, in turn
InitWarm ==
    /\ InitOther
    /\ prefillerProxies =
          [i \in 1 .. WarmPeers |->
              [key |-> Peer(WarmPeers + 1 - i),
               value |-> [id |-> WarmPeers + 1 - i, target |-> Peer(WarmPeers + 1 - i)]]]
    /\ proxiesCreated = WarmPeers

SpecEvict == InitWarm /\ [][NextEvict]_vars

(***************************************************************************)
(* Start-up of the data-parallel listeners (Server.Start, startDataParallel) *)
(***************************************************************************)
\* values of the --port flag
PortFlags == { "8000", "http" }

\* what s.decoderURL.Port() gives for the values of --vllm-port
DecoderPortFlags == { "8001", "" }

\* strconv.Atoi on the port strings: the number, or an error
Atoi(str) ==
    IF \E n \in 8000 .. 8006 : Itoa(n) = str
    THEN [ok |-> TRUE, n |-> CHOOSE n \in 8000 .. 8006 : Itoa(n) = str]
    ELSE [ok |-> FALSE, n |-> 0]

\* the variables no step of the start-up touches
notStartVars ==
    << reqVars, allowlistVars, cacheVars, lockVars, inFlight, schedVars, hdrVars, ctxDone,
       listenerPc,
       shutdownPc, startResult, crashed, stopCh, poolInformersRun, poolSynced,
       podStopChans, podChans, lastEvent >>

\* startDataParallel up to its first loop: the two ports are parsed and the
\* primary decoder's handler is entered under podIP:port
startDataParallel_seed ==
    /\ startPc = "init"
    /\ IF Atoi(srvPort).ok /\ Atoi(srvDecoderPort).ok
       THEN /\ dpProxies' = MapSet(dpProxies, JoinHostPort(POD_IP, srvPort),
                                   JoinHostPort("localhost", srvDecoderPort))
            /\ startPc' = "fill"
       ELSE /\ startPc' = "error"
            /\ UNCHANGED dpProxies
    /\ dpIdx' = 0
    /\ UNCHANGED << srvPort, srvDecoderPort, dpSize, rankPc, dpLookup >>
    /\ UNCHANGED notStartVars

\* one round of the loop that fills the map, or its end
startDataParallel_fill_Spawning ==
    /\ startPc = "fill"
    /\ IF dpIdx < dpSize - 1
       THEN LET rankPort == Itoa(Atoi(srvPort).n + dpIdx + 1)
                decoderPort == Itoa(Atoi(srvDecoderPort).n + dpIdx + 1)
            IN  /\ dpProxies' = MapSet(dpProxies, JoinHostPort(POD_IP, rankPort),
                                       JoinHostPort("localhost", decoderPort))
                /\ dpIdx' = dpIdx + 1
                /\ rankPc' = [rankPc EXCEPT ![dpIdx + 1] = "started"]
                /\ UNCHANGED startPc
       ELSE /\ startPc' = "base"
            /\ dpIdx' = 0
            /\ UNCHANGED << dpProxies, rankPc >>
    /\ UNCHANGED << srvPort, srvDecoderPort, dpSize, dpLookup >>
    /\ UNCHANGED notStartVars

startDataParallel_fill ==
    /\ startPc = "fill"
    /\ IF dpIdx < dpSize - 1
       THEN LET rankPort == Itoa(Atoi(srvPort).n + dpIdx + 1)
                decoderPort == Itoa(Atoi(srvDecoderPort).n + dpIdx + 1)
            IN  /\ dpProxies' = MapSet(dpProxies, JoinHostPort(POD_IP, rankPort),
                                       JoinHostPort("localhost", decoderPort))
                /\ dpIdx' = dpIdx + 1
                /\ UNCHANGED startPc
       ELSE /\ startPc' = "go"
            /\ dpIdx' = 0
            /\ UNCHANGED dpProxies
    /\ UNCHANGED << srvPort, srvDecoderPort, dpSize, rankPc, dpLookup >>
    /\ UNCHANGED notStartVars

\* one round of the loop that hands the listener of a rank to the group, or
\* its end and the return of startDataParallel
startDataParallel_go ==
    /\ startPc = "go"
    /\ IF dpIdx < dpSize - 1
       THEN /\ rankPc' = [rankPc EXCEPT ![dpIdx + 1] = "started"]
            /\ dpIdx' = dpIdx + 1
            /\ UNCHANGED startPc
       ELSE /\ startPc' = "base"
            /\ dpIdx' = 0
            /\ UNCHANGED rankPc
    /\ UNCHANGED << srvPort, srvDecoderPort, dpSize, dpProxies, dpLookup >>
    /\ UNCHANGED notStartVars

\* Server.Start after startDataParallel: the primary listener goes to the
\* group and Start waits for the group
Start_goBaseStart ==
    /\ startPc = "base"
    /\ rankPc' = [rankPc EXCEPT ![0] = "started"]
    /\ startPc' = "wait"
    /\ UNCHANGED << srvPort, srvDecoderPort, dpSize, dpProxies, dpIdx, dpLookup >>
    /\ UNCHANGED notStartVars

\* the goroutine of the listener of a rank: a sibling looks its handler up in
\* the map, then BaseStart listens on the port of the rank and serves, or
\* returns the error of net.Listen
rankListener(r) ==
    /\ rankPc[r] = "started"
    /\ \E listened \in BOOLEAN :
          rankPc' = [rankPc EXCEPT ![r] = IF listened THEN "serving" ELSE "failed"]
    /\ IF r = 0
       THEN UNCHANGED dpLookup
       ELSE LET hostPort == JoinHostPort(POD_IP, Itoa(Atoi(srvPort).n + r))
            IN  dpLookup' = [dpLookup EXCEPT ![r] =
                                IF hostPort \in DOMAIN dpProxies
                                THEN dpProxies[hostPort] ELSE EmptyString]
    /\ UNCHANGED << srvPort, srvDecoderPort, dpSize, dpProxies, startPc, dpIdx >>
    /\ UNCHANGED notStartVars

NextStart ==
    \/ startDataParallel_seed
    \/ startDataParallel_fill
    \/ startDataParallel_go
    \/ Start_goBaseStart
    \/ \E r \in AllRanks : rankListener(r)

\* the state after NewProxy, for each setting of the three flags
InitStart ==
    /\ InitRest
    /\ prefillerProxies = <<>>
    /\ proxiesCreated = 0
    /\ srvPort \in PortFlags
    /\ srvDecoderPort \in DecoderPortFlags
    /\ dpSize \in 1 .. MaxSize
    /\ dpProxies = << >>
    /\ startPc = "init"
    /\ dpIdx = 0
    /\ rankPc = [r \in AllRanks |-> "none"]
    /\ dpLookup = NoLookup
    /\ NewNoHitLRU(0)
    /\ NoLLMRequest

SpecStart == InitStart /\ [][NextStart]_vars

(***************************************************************************)
(* NoHitLRU scorer (no_hit_lru.go)                                         *)
(***************************************************************************)
\* how many pods the scheduler knows
MaxPods == 3

\* request.RequestId of the request being scheduled.  The ids of the scheduler
\* are unique, each call locks the cache and the plugin state for itself and
\* a request reads only its own entry, so the calls for requests scheduled at
\* the same time are followed one request after the other; the id stands for
\* the next request once PreRequest has been called, since nothing reads what
\* a request left in the plugin state before the next Score overwrites it
RequestIds == { "req-1" }

\* pod.GetPod().NamespacedName.String() of the pods
PodNamespacedNames == << "default/pod-a", "default/pod-b", "default/pod-c", "default/pod-d",
               "default/pod-e" >>

Pods == { PodNamespacedNames[i] : i \in 1 .. MaxPods }

PodIndex(p) == CHOOSE i \in DOMAIN PodNamespacedNames : PodNamespacedNames[i] = p

\* the candidate lists given to Score: the pods that passed the filters, in
\* the order of the datastore, and all pods in the opposite order
CandidateLists ==
    { pods \in UNION { [1 .. n -> Pods] : n \in 1 .. MaxPods } :
         \/ \A i \in 1 .. (Len(pods) - 1) : PodIndex(pods[i]) < PodIndex(pods[i + 1])
         \/ /\ Len(pods) = MaxPods
            /\ \A i \in 1 .. (Len(pods) - 1) : PodIndex(pods[i]) > PodIndex(pods[i + 1]) }

\* the prefix plugin's state in the cycle state: absent, or with the number of
\* its PrefixCacheServers
PrefixStates ==
    { [found |-> FALSE, servers |-> 0],
      [found |-> TRUE, servers |-> 0],
      [found |-> TRUE, servers |-> 1] }

\* values of the lruSize parameter: not given, and a cache of one pod
LRUSizeParams == { 0, 1 }

\* the scheduling result PreRequest gets: no profile results, a primary profile
\* without target pods, or the first target pod of the primary profile
SchedulingResults ==
    { [profiles |-> 0, target |-> ""], [profiles |-> 1, target |-> ""] } \cup
    { [profiles |-> 1, target |-> p] : p \in Pods }

\* the elements of a list
Elems(list) == { list[i] : i \in DOMAIN list }

\* a float64 score as the fraction it is the nearest value of
Fraction(num, den) == [num |-> num, den |-> den]

\* the position of a pod in a list of distinct pods, counted from 0
PositionIn(list, p) == (CHOOSE i \in DOMAIN list : list[i] = p) - 1

\* isColdRequest: no prefix state, or one without cache servers
isColdRequest_Always(prefixState) == TRUE

isColdRequest(prefixState) ==
    IF ~prefixState.found THEN TRUE ELSE prefixState.servers = 0

\* scoreNeutral: 0.5 for every pod
scoreNeutral(pods) == [p \in Elems(pods) |-> Fraction(1, 2)]

\* getLRUPositions: position 0 is the oldest key
getLRUPositions(cache) == [k \in Elems(cache) |-> PositionIn(cache, k)]

\* partitionPodsByUsage
partitionPodsByUsage(pods, lruPosition) ==
    LET used(p) == p \in DOMAIN lruPosition
        unused(p) == p \notin DOMAIN lruPosition
    IN  [usedPods |-> SelectSeq(pods, used), neverUsedPods |-> SelectSeq(pods, unused)]

\* scoreNeverUsedPods: 1.0 - i/(totalPods-1) for the i-th never-used pod
scoreNeverUsedPods(scoredPods, neverUsedPods, totalPods) ==
    IF totalPods <= 1
    THEN scoredPods
    ELSE [p \in (DOMAIN scoredPods) \cup Elems(neverUsedPods) |->
            IF p \in Elems(neverUsedPods)
            THEN Fraction((totalPods - 1) - PositionIn(neverUsedPods, p), totalPods - 1)
            ELSE scoredPods[p]]

\* scoreUsedPods: 1.0 - rank/(totalPods-1), not below 0, with rank the number of
\* never-used pods plus the position of the pod in the cache
scoreUsedPods_NoCount(scoredPods, usedPods, lruPosition, neverUsedCount, totalPods) ==
    IF totalPods <= 1
    THEN scoredPods
    ELSE [p \in (DOMAIN scoredPods) \cup Elems(usedPods) |->
            IF p \in Elems(usedPods)
            THEN LET rank == lruPosition[p]
                 IN  IF (totalPods - 1) - rank < 0
                     THEN Fraction(0, totalPods - 1)
                     ELSE Fraction((totalPods - 1) - rank, totalPods - 1)
            ELSE scoredPods[p]]

scoreUsedPods(scoredPods, usedPods, lruPosition, neverUsedCount, totalPods) ==
    IF totalPods <= 1
    THEN scoredPods
    ELSE [p \in (DOMAIN scoredPods) \cup Elems(usedPods) |->
            IF p \in Elems(usedPods)
            THEN LET rank == neverUsedCount + lruPosition[p]
                 IN  IF (totalPods - 1) - rank < 0
                     THEN Fraction(0, totalPods - 1)
                     ELSE Fraction((totalPods - 1) - rank, totalPods - 1)
            ELSE scoredPods[p]]

\* scoreColdRequestByLRU
scoreColdRequestByLRU(pods, cache) ==
    LET totalPods == Len(pods)
    IN  IF totalPods = 1
        THEN [p \in {pods[1]} |-> Fraction(1, 1)]
        ELSE LET lruPosition == getLRUPositions(cache)
                 parts == partitionPodsByUsage(pods, lruPosition)
                 first == scoreNeverUsedPods(<< >>, parts.neverUsedPods, totalPods)
             IN  scoreUsedPods(first, parts.usedPods, lruPosition,
                               Len(parts.neverUsedPods), totalPods)

\* lru.Cache.Add on the keys, oldest first: a present key becomes the newest,
\* a new one is appended and the oldest leaves beyond the capacity
lruCache_Add(cache, capacity, key) ==
    LET other(k) == k # key
        added == Append(SelectSeq(cache, other), key)
    IN  IF Len(added) > capacity THEN Tail(added) ELSE added

\* Score: the request's cold state goes to the plugin state; neutral scores for
\* a request with a cache hit, scores by the cache order for a cold one
NoHitLRU_Score ==
    /\ \E id \in RequestIds \ inCycle, prefixState \in PrefixStates, pods \in CandidateLists :
          LET isCold == isColdRequest(prefixState)
          IN  /\ pluginState' = MapSet(pluginState, id, isCold)
              /\ inCycle' = inCycle \cup {id}
              /\ lastScore' = [prefix |-> prefixState, pods |-> pods,
                               scores |-> IF ~isCold THEN scoreNeutral(pods)
                                          ELSE scoreColdRequestByLRU(pods, lruCache)]
    /\ UNCHANGED << lruCache, lruSize, coldOrder >>
    /\ UNCHANGED << reqVars, allowlistVars, cacheVars, lifeVars, lockVars, inFlight,
                    startVars, hdrVars >>

\* PreRequest of a request Score has seen: the target pod of a cold request
\* becomes the newest key of the cache
NoHitLRU_PreRequest ==
    /\ \E id \in inCycle, result \in SchedulingResults :
          /\ inCycle' = inCycle \ {id}
          /\ IF result.profiles = 0
             THEN UNCHANGED << pluginState, lruCache, coldOrder >>
             ELSE /\ pluginState' = MapDelete(pluginState, id)
                  /\ IF id \notin DOMAIN pluginState
                     THEN UNCHANGED << lruCache, coldOrder >>
                     ELSE IF ~pluginState[id]
                     THEN UNCHANGED << lruCache, coldOrder >>
                     ELSE IF result.target = ""
                     THEN UNCHANGED << lruCache, coldOrder >>
                     ELSE /\ lruCache' = lruCache_Add(lruCache, lruSize, result.target)
                          /\ coldOrder' = lruCache_Add(coldOrder, MaxPods, result.target)
    /\ UNCHANGED << lruSize, lastScore >>
    /\ UNCHANGED << reqVars, allowlistVars, cacheVars, lifeVars, lockVars, inFlight,
                    startVars, hdrVars >>

NextScorer == NoHitLRU_Score \/ NoHitLRU_PreRequest

\* a scorer made with each value of the lruSize parameter
InitScorer ==
    /\ InitRest
    /\ prefillerProxies = <<>>
    /\ proxiesCreated = 0
    /\ Started
    /\ \E paramsLRUSize \in LRUSizeParams : NewNoHitLRU(paramsLRUSize)
    /\ NoLLMRequest

SpecScorer == InitScorer /\ [][NextScorer]_vars

(***************************************************************************)
(* Prefill header (PrefillHeaderHandler.PreRequest, chatCompletionsHandler) *)
(***************************************************************************)
\* common.PrefillPodHeader
PrefillPodHeader == "x-prefiller-host-port"

\* requestHeaderPrefillURL
requestHeaderPrefillURL == "x-prefiller-url"

\* defaultPrefillProfile
defaultPrefillProfile == "prefill"

\* the prefill headers a client can send: each absent or with one of its values
ClientHeaderMaps ==
    { [k \in keys |-> IF k = PrefillPodHeader THEN hp ELSE url] :
         keys \in SUBSET {PrefillPodHeader, requestHeaderPrefillURL},
         hp \in { EmptyString, <<"10.0.0.5", ":", "9000">>, <<"evil.example", ":", "9000">> },
         url \in URLHeaders \ {EmptyString} }

\* the prefill pods the scheduler picks from: Address and Port
PrefillPods ==
    { [Address |-> "10.0.0.5", Port |-> "9000"], [Address |-> "10.0.0.6", Port |-> "9000"] }

\* SchedulingResult.ProfileResults: the decode profile alone, or with the
\* prefill profile and its one or two target pods
ProfileResultMaps ==
    { [k \in {"decode"} |-> << [Address |-> POD_IP, Port |-> "8000"] >>] } \cup
    { [k \in {"decode", defaultPrefillProfile} |->
          IF k = "decode" THEN << [Address |-> POD_IP, Port |-> "8000"] >> ELSE targets] :
         targets \in { << p >> : p \in PrefillPods } \cup
                     { << p, q >> : p \in PrefillPods, q \in PrefillPods } }

\* http.Header.Get on the forwarded headers: "" for a header that is absent
HeaderValue(headers, name) == IF name \in DOMAIN headers THEN headers[name] ELSE EmptyString

\* a client request reaches the scheduler, which runs its profiles
scheduleRequest ==
    /\ prePc = "idle"
    /\ \E headers \in ClientHeaderMaps, results \in ProfileResultMaps :
          /\ clientHeaders' = headers
          /\ requestHeaders' = headers
          /\ profileResults' = results
    /\ prePc' = "scheduled"
    /\ sidecarTarget' = EmptyString
    /\ UNCHANGED << reqVars, allowlistVars, cacheVars, lifeVars, lockVars, inFlight,
                    startVars, schedVars >>

\* PrefillHeaderHandler.PreRequest
PrefillHeaderHandler_PreRequest ==
    /\ prePc = "scheduled"
    /\ LET cleared == IF PrefillPodHeader \in DOMAIN requestHeaders
                      THEN MapSet(requestHeaders, PrefillPodHeader, EmptyString)
                      ELSE requestHeaders
       IN  IF defaultPrefillProfile \notin DOMAIN profileResults
           THEN requestHeaders' = cleared
           ELSE LET targetPod == profileResults[defaultPrefillProfile][1]
                IN  requestHeaders' =
                       MapSet(cleared, PrefillPodHeader,
                              JoinHostPort(targetPod.Address, targetPod.Port))
    /\ prePc' = "handled"
    /\ UNCHANGED << clientHeaders, profileResults, sidecarTarget >>
    /\ UNCHANGED << reqVars, allowlistVars, cacheVars, lifeVars, lockVars, inFlight,
                    startVars, schedVars >>

\* the request goes on with its headers to the sidecar of the decode pod, where
\* chatCompletionsHandler reads the prefill target
chatCompletionsHandler_readTarget ==
    /\ prePc = "handled"
    /\ sidecarTarget' = ReadPrefillTarget(HeaderValue(requestHeaders, PrefillPodHeader),
                                          HeaderValue(requestHeaders, requestHeaderPrefillURL))
    /\ prePc' = "served"
    /\ UNCHANGED << clientHeaders, requestHeaders, profileResults >>
    /\ UNCHANGED << reqVars, allowlistVars, cacheVars, lifeVars, lockVars, inFlight,
                    startVars, schedVars >>

\* the request is over
requestDone ==
    /\ prePc = "served"
    /\ prePc' = "idle"
    /\ UNCHANGED << clientHeaders, requestHeaders, profileResults, sidecarTarget >>
    /\ UNCHANGED << reqVars, allowlistVars, cacheVars, lifeVars, lockVars, inFlight,
                    startVars, schedVars >>

NextHeader ==
    \/ scheduleRequest
    \/ PrefillHeaderHandler_PreRequest
    \/ chatCompletionsHandler_readTarget
    \/ requestDone

SpecHeader == Init /\ [][NextHeader]_vars

Next ==
    \/ healthHandler
    \/ muxRedirect
    \/ decoderProxyHandler
    \/ chatCompletionsHandler
    \/ PrefillerServe
    \/ runNIXLProtocolV2Decode
    \/ DecoderServe
    \/ Finish
    \/ onInferencePoolAdd
    \/ onInferencePoolUpdate
    \/ onInferencePoolDelete
    \/ onPodAdd
    \/ onPodUpdate
    \/ onPodDelete

Spec == Init /\ [][Next]_vars

(***************************************************************************)
(* Properties                                                              *)
(***************************************************************************)
\* the request has left its handler
Finished == pc \in {"done", "aborted"}

\* the captured prefill response is a 2xx one
Captured2xx == pw.statusCode >= 200 /\ pw.statusCode <= 299

C2_PrefillPrecedesDecode ==
    [][ (handledBy' = "runner" /\ Len(decodeReqs') > Len(decodeReqs)) =>
            /\ pc = "prefilled"
            /\ Len(prefillReqs) = 1
            /\ pw.statusCode # 0
            /\ Captured2xx ]_vars

C2_Witness ==
    /\ pc = "decoding"
    /\ handledBy = "runner"
    /\ Len(decodeReqs) = 1
    /\ pw.statusCode = 299

\* the host of a target written host:port or host
HostOf(target) == << target[1] >>

PlainTarget(target) ==
    \/ Len(target) = 1
    \/ Len(target) = 3 /\ target[2] = ":"

\* C3: with SSRF protection enabled, a chat/completions request whose prefill
\* target's host is not in the allowed set is answered 403 and sends nothing to
\* the prefill peer or the decoder, and the runner is entered only with a target
\* whose host part is in the allowed set.
C3_ForbiddenTargetSendsNothing ==
    [][ (pc = "idle" /\ enabled /\ handledBy' \in {"forbidden", "runner"}) =>
            /\ ( /\ PlainTarget(prefillPodHostPort')
                 /\ HostOf(prefillPodHostPort') \notin allowedTargets )
               => /\ handledBy' = "forbidden"
                  /\ w'.statusCode = 403
                  /\ pc' = "done"
                  /\ prefillReqs' = <<>>
                  /\ decodeReqs' = <<>>
            /\ handledBy' = "runner" =>
                  normalizeHostPort(prefillPodHostPort') \in allowedTargets ]_vars

C3_Witness ==
    /\ enabled
    /\ handledBy = "forbidden"
    /\ w.statusCode = 403
    /\ prefillPodHostPort = <<"evil.example", ":", "9000">>
    /\ allowedTargets # {}

\* C4: every prefill request body carries max_tokens == 1.
C4_PrefillMaxTokensIsOne ==
    \A i \in DOMAIN prefillReqs :
        /\ prefillReqs[i].body.kind = "object"
        /\ MapHas(prefillReqs[i].body.members, "max_tokens")
        /\ prefillReqs[i].body.members["max_tokens"] = JNum(1)

C4_Witness ==
    /\ pc = "prefilling"
    /\ Len(prefillReqs) = 1
    /\ MapHas(req.body.members, "max_tokens")
    /\ req.body.members["max_tokens"] = JNum(50)

\* C5 (as stated): every prefill request body carries max_completion_tokens == 1.
C5_PrefillMaxCompletionTokensIsOne ==
    \A i \in DOMAIN prefillReqs :
        /\ MapHas(prefillReqs[i].body.members, "max_completion_tokens")
        /\ prefillReqs[i].body.members["max_completion_tokens"] = JNum(1)

\* C6: every prefill request body carries stream == false and has no
\* stream_options key.
C6_PrefillNotStreamed ==
    \A i \in DOMAIN prefillReqs :
        /\ MapHas(prefillReqs[i].body.members, "stream")
        /\ prefillReqs[i].body.members["stream"] = JBool(FALSE)
        /\ ~MapHas(prefillReqs[i].body.members, "stream_options")

C6_Witness ==
    /\ pc = "prefilling"
    /\ Len(prefillReqs) = 1
    /\ MapHas(req.body.members, "stream")
    /\ req.body.members["stream"] = JBool(TRUE)
    /\ MapHas(req.body.members, "stream_options")

\* C7: every prefill request body carries kv_transfer_params equal to
\* {do_remote_decode: true, do_remote_prefill: false, remote_engine_id: null,
\* remote_block_ids: null, remote_host: null, remote_port: null}, whatever the
\* client supplied under that key.
C7_PrefillKVTransferParams ==
    \A i \in DOMAIN prefillReqs :
        /\ MapHas(prefillReqs[i].body.members, "kv_transfer_params")
        /\ prefillReqs[i].body.members["kv_transfer_params"] =
             [t |-> "object", n |-> 0, s |-> "",
              f |-> [do_remote_decode  |-> JBool(TRUE),
                     do_remote_prefill |-> JBool(FALSE),
                     remote_engine_id  |-> JNull,
                     remote_block_ids  |-> JNull,
                     remote_host       |-> JNull,
                     remote_port       |-> JNull]]

C7_Witness ==
    /\ pc = "prefilling"
    /\ Len(prefillReqs) = 1
    /\ MapHas(req.body.members, "kv_transfer_params")
    /\ req.body.members["kv_transfer_params"] = ClientKV

\* key k is in body exactly when the client's body has it, with the client's value
AsClientSent(body, k) ==
    /\ MapHas(body.members, k) <=> MapHas(req.body.members, k)
    /\ MapHas(body.members, k) => body.members[k] = req.body.members[k]

C9_DecodeRestoresMaxCompletionTokens ==
    handledBy = "runner" =>
        \A i \in DOMAIN decodeReqs :
            /\ AsClientSent(decodeReqs[i].body, "max_completion_tokens")
            /\ Len(prefillReqs) = 1
            /\ MapHas(prefillReqs[1].body.members, "max_completion_tokens")
            /\ prefillReqs[1].body.members["max_completion_tokens"] = JNum(1)

\* the kv_transfer_params of the captured prefill response, null when missing
CapturedKV ==
    IF pw.buffer.kind = "object" /\ "kv_transfer_params" \in DOMAIN pw.buffer.members
    THEN pw.buffer.members["kv_transfer_params"]
    ELSE JNull

\* C10: in every decode request body of the runner kv_transfer_params is the
\* value of that field in the captured 2xx prefill response, null when the
\* response has no such field; what the prefill request carried is not passed on.
C10_DecodeCarriesPeerKV ==
    handledBy = "runner" =>
        \A i \in DOMAIN decodeReqs :
            /\ Captured2xx
            /\ MapHas(decodeReqs[i].body.members, "kv_transfer_params")
            /\ decodeReqs[i].body.members["kv_transfer_params"] = CapturedKV
            /\ CapturedKV # prefillReqs[1].body.members["kv_transfer_params"] =>
                 decodeReqs[i].body.members["kv_transfer_params"] #
                   prefillReqs[1].body.members["kv_transfer_params"]

C10_Witness ==
    /\ pc = "decoding"
    /\ handledBy = "runner"
    /\ Len(decodeReqs) = 1
    /\ CapturedKV = PeerKV
    /\ decodeReqs[1].body.members["kv_transfer_params"] = PeerKV

\* C11: the request identifier sent with the prefill sub-request is the one
\* sent with the decode sub-request of the same client request, and an
\* identifier given to a client request was given to no request before it.
C11_OneRequestIDPerRequest ==
    [][ /\ \A i \in DOMAIN prefillReqs' :
              /\ prefillReqs'[i].requestID # 0
              /\ prefillReqs'[i].requestID = uuidStr'
        /\ handledBy' = "runner" =>
              \A i \in DOMAIN decodeReqs' :
                  /\ Len(prefillReqs') = 1
                  /\ decodeReqs'[i].requestID = prefillReqs'[1].requestID
        /\ (uuidStr' # 0 /\ uuidStr' # uuidStr) =>
              /\ uuidStr' > nextUUID
              /\ nextUUID' = uuidStr' ]_vars

C11_Witness ==
    /\ pc = "decoding"
    /\ handledBy = "runner"
    /\ uuidStr = 2
    /\ prefillReqs[1].requestID = 2
    /\ decodeReqs[1].requestID = 2

\* C12: the prefill target is the x-prefiller-host-port value, and the
\* x-prefiller-url value only when the former is empty; when both are empty the
\* request goes once, body unchanged, to the local decoder and nothing is sent
\* to a prefill peer; a prefill request goes to the target so chosen.
C12_TargetFromHeaders ==
    handledBy \in {"passthrough", "forbidden", "runner"} =>
        /\ prefillPodHostPort =
             IF req.hostPort # <<>> THEN req.hostPort ELSE req.url
        /\ handledBy = "passthrough" <=> (req.hostPort = <<>> /\ req.url = <<>>)
        /\ handledBy = "passthrough" =>
             /\ prefillReqs = <<>>
             /\ Len(decodeReqs) = 1
             /\ decodeReqs[1].body = req.body
             /\ decodeReqs[1].to = <<"localhost", ":", "8001">>
        /\ \A i \in DOMAIN prefillReqs :
             prefillReqs[i].to =
                IF /\ Len(prefillPodHostPort) >= 3
                   /\ SubSeq(prefillPodHostPort, 1, 3) = <<"http", ":", "//">>
                THEN SubSeq(prefillPodHostPort, 4, Len(prefillPodHostPort))
                ELSE prefillPodHostPort

C12_Witness ==
    /\ handledBy = "runner"
    /\ pc = "prefilling"
    /\ req.hostPort = <<"10.0.0.5", ":", "9000">>
    /\ req.url = <<"evil.example", ":", "9000">>
    /\ prefillReqs[1].to = <<"10.0.0.5", ":", "9000">>

\* hosts and ports IsAllowed is asked about
ProbeHosts == {"10.0.0.5", "evil.example"}

ProbePorts == {"9000", "abc"}

\* inputs net.SplitHostPort rejects: no port, more than one colon outside brackets
ProbeUnsplittable ==
    { <<"pod1">>,
      <<"http", ":", "//", "10.0.0.5", ":", "9000">>,
      <<"10.0.0.5", ":", "9000", ":", "80">> }

\* C13: with SSRF protection enabled IsAllowed(h:p) is membership of h in the
\* allowed set, whatever the port p (also for a bracketed host), and an input
\* that does not split into host and port is looked up as a whole.
C13_HostDecides ==
    enabled =>
        /\ \A h \in ProbeHosts, p \in ProbePorts :
              IsAllowed(enabled, allowedTargets, <<h, ":", p>>) = (<<h>> \in allowedTargets)
        /\ IsAllowed(enabled, allowedTargets, <<"[", "10.0.0.5", "]", ":", "9000">>) =
              (<<"10.0.0.5">> \in allowedTargets)
        /\ \A x \in ProbeUnsplittable :
              IsAllowed(enabled, allowedTargets, x) = (x \in allowedTargets)

C13_Witness ==
    /\ enabled
    /\ <<"10.0.0.5">> \in allowedTargets
    /\ handledBy = "runner"
    /\ prefillPodHostPort = <<"10.0.0.5", ":", "9000">>
    /\ pc = "prefilling"

\* C14: with SSRF protection disabled IsAllowed is true of every input; no
\* watcher runs, the allowed set stays empty and no request is refused.
C14_DisabledAllowsAll ==
    ~enabled =>
        /\ \A h \in ProbeHosts, p \in ProbePorts :
              IsAllowed(enabled, allowedTargets, <<h, ":", p>>)
        /\ \A x \in ProbeUnsplittable \cup {<<>>} : IsAllowed(enabled, allowedTargets, x)
        /\ allowedTargets = {}
        /\ podInformers = <<>>
        /\ poolStore = <<>>
        /\ handledBy # "forbidden"

C14_Witness ==
    /\ ~enabled
    /\ allowedTargets = {}
    /\ handledBy = "runner"
    /\ prefillPodHostPort = <<"evil.example", ":", "9000">>
    /\ pc = "prefilling"

\* the target is written http://host:port
LegacyForm(target) ==
    /\ Len(target) = 6
    /\ SubSeq(target, 1, 3) = <<"http", ":", "//">>
    /\ target[5] = ":"

\* C15 (as stated): a prefill target written http://host:port is treated as
\* host:port is: the request is let through exactly when host is allowed (or
\* SSRF protection is disabled), and its prefill request goes to host:port.
C15_LegacyFormLikePlainForm ==
    [][ ( /\ pc = "idle"
          /\ handledBy' \in {"forbidden", "runner"}
          /\ LegacyForm(prefillPodHostPort') ) =>
            /\ handledBy' = "runner" <=>
                  (enabled => << prefillPodHostPort'[4] >> \in allowedTargets)
            /\ \A i \in DOMAIN prefillReqs' :
                  prefillReqs'[i].to =
                     << prefillPodHostPort'[4], ":", prefillPodHostPort'[6] >> ]_vars

\* ---------------------------------------------------------------------------
\* C16: prefillerProxyHandler returns the same handler instance for any two
\* inputs that normalize to the same key (host:port twice, or host:port and
\* http://host:port) while the entry is still in the cache: a call whose
\* normalized key has an entry returns that entry's handler.
\* The code looks the cache up with the input as given and stores under the
\* input with "http://" cut, so the legacy form never hits.
NormalizedKey(hostPort) == CutPrefix(hostPort, HTTPPrefix)

C16_SameKeySameHandler ==
    [][ ( /\ lastCall'.hostPort # EmptyString
          /\ ~lastCall'.err
          /\ LRUContains(prefillerProxies, NormalizedKey(lastCall'.hostPort)) )
        => lastCall'.handler =
              prefillerProxies[LRUIndex(prefillerProxies,
                                        NormalizedKey(lastCall'.hostPort))].value ]_vars

\* ---------------------------------------------------------------------------
\* C17: a request whose x-data-parallel-host-port is a key of the
\* data-parallel table ends with exactly one request sent, to that sibling's
\* decoder, none to the primary decoder (unless the key is the primary's own)
\* and no prefill request, also when a prefill-target header is present.
\* chatCompletionsHandler never reads the header, so the request goes to the
\* primary decoder or through the prefill orchestration.
C17_RoutedToSibling ==
    ( /\ Finished
      /\ handledBy \in {"passthrough", "forbidden", "runner"}
      /\ req.dataParallel \in DOMAIN dataParallelProxies )
    => /\ prefillReqs = <<>>
       /\ Len(decodeReqs) = 1
       /\ decodeReqs[1].to = dataParallelHandler(req.dataParallel).to

\* C18: a request whose x-data-parallel-host-port is not empty and is not a
\* key of the data-parallel table is answered 400 Bad Request, and nothing is
\* sent to any decoder or to the prefill peer.
\* The header is never read, so such a request is served as if it had none.
C18_UnknownSiblingIs400 ==
    ( /\ Finished
      /\ handledBy \in {"passthrough", "forbidden", "runner"}
      /\ req.dataParallel # EmptyString
      /\ req.dataParallel \notin DOMAIN dataParallelProxies )
    => /\ w.statusCode = dataParallelHandler(req.dataParallel).statusCode
       /\ w.statusCode = 400
       /\ prefillReqs = <<>>
       /\ decodeReqs = <<>>

\* ---------------------------------------------------------------------------
\* C19: when the status captured from the prefill peer is not 2xx, the client
\* receives exactly that status code, with nothing else written, and the
\* request ends with no further sub-request (no decode request).
C19_NonSuccessMirrored ==
    ( /\ handledBy = "runner"
      /\ pc = "done"
      /\ Len(prefillReqs) = 1
      /\ ~Captured2xx )
    => /\ w.statusCode = pw.statusCode
       /\ w.body = NoBody
       /\ decodeReqs = <<>>
       /\ Len(prefillReqs) = 1

C19_Witness ==
    /\ handledBy = "runner"
    /\ pc = "done"
    /\ Len(prefillReqs) = 1
    /\ pw.statusCode = 404
    /\ w.statusCode = 404
    /\ decodeReqs = <<>>

\* ---------------------------------------------------------------------------
\* C20: when the body of an orchestrated request is not a valid JSON object
\* (malformed text, or a JSON value that is not an object: null, an array),
\* the client receives HTTP 400 with an error envelope of type
\* BadRequestError and code 400, and nothing is sent to the prefill peer or
\* to the decoder.
\* The body null unmarshals into a nil map without an error, and the runner
\* goes on to assign into that map.
C20_BadBodyIs400 ==
    ( /\ handledBy = "runner"
      /\ Finished
      /\ req.body.kind \in {"invalid", "null", "array"} )
    => /\ w.statusCode = 400
       /\ w.body.object = "error"
       /\ w.body.type = "BadRequestError"
       /\ w.body.code = 400
       /\ prefillReqs = <<>>
       /\ decodeReqs = <<>>

\* ---------------------------------------------------------------------------
\* the request line of the request being served
IsHealthGet == req.method = "GET" /\ req.path = "/health"

IsCompletionsPost == req.method = "POST" /\ req.path \in {ChatCompletionsPath, CompletionsPath}

ForwardedOnceToDecoder ==
    /\ prefillReqs = <<>>
    /\ Len(decodeReqs) = 1
    /\ decodeReqs[1].to = << "localhost", ":", "8001" >>
    /\ decodeReqs[1].body = req.body

\* C21 (as stated): any request that is neither GET /health nor POST to
\* /v1/chat/completions or /v1/completions is forwarded to the local decoder
\* exactly once with no prefill request; GET /health is answered 200 without
\* contacting the decoder.
\* HEAD /health is served by the "GET /health" pattern, and a path that is
\* not clean is answered with a redirect.
C21_AsStated ==
    handledBy # "" =>
        /\ (~IsHealthGet /\ ~IsCompletionsPost) => ForwardedOnceToDecoder
        /\ IsHealthGet => (w.statusCode = 200 /\ decodeReqs = <<>> /\ prefillReqs = <<>>)

\* C21 (amended): any request with a clean path that is neither GET or HEAD
\* /health nor POST to the two completions paths is forwarded to the local
\* decoder exactly once, with no prefill request, whatever prefill headers it
\* carries; GET and HEAD /health are answered 200 without contacting the
\* decoder; a path that is not clean is answered 301 and nothing is sent.
C21_OtherRequestsForwarded ==
    handledBy # "" =>
        LET clean  == req.path # "//health"
            health == req.method \in {"GET", "HEAD"} /\ req.path = "/health"
        IN  /\ (clean /\ ~health /\ ~IsCompletionsPost) =>
                  (handledBy = "decoderProxy" /\ ForwardedOnceToDecoder)
            /\ health =>
                  /\ handledBy = "health"
                  /\ w.statusCode = 200
                  /\ decodeReqs = <<>>
                  /\ prefillReqs = <<>>
            /\ ~clean =>
                  /\ w.statusCode = 301
                  /\ decodeReqs = <<>>
                  /\ prefillReqs = <<>>

C21_Witness ==
    /\ handledBy = "decoderProxy"
    /\ pc = "done"
    /\ req.method = "GET"
    /\ req.path = ChatCompletionsPath
    /\ req.hostPort = << "10.0.0.5", ":", "9000" >>
    /\ Len(decodeReqs) = 1
    /\ prefillReqs = <<>>

\* ---------------------------------------------------------------------------
\* the keys the runner rewrites in one body or the other, per the claim
RewrittenKeys ==
    { requestFieldKVTransferParams, requestFieldStream, requestFieldStreamOptions,
      requestFieldMaxTokens, requestFieldMaxCompletionTokens }

KeepsKeysOutside(body, keys) ==
    /\ body.kind = "object"
    /\ \A k \in (DOMAIN req.body.members) \ keys :
          MapHas(body.members, k) /\ body.members[k] = req.body.members[k]
    /\ \A k \in (DOMAIN body.members) \ keys : MapHas(req.body.members, k)

\* C24: the prefill body and the decode body keep every key of the client's
\* JSON object other than kv_transfer_params, stream, stream_options,
\* max_tokens and max_completion_tokens, with its original value; the decode
\* body differs from the client's object only in kv_transfer_params.
\* Values pass through float64 on the way: an integer beyond 2^53 comes out
\* as another number.
C24_OtherKeysUntouched ==
    (handledBy = "runner" /\ req.body.kind = "object") =>
        /\ \A i \in DOMAIN prefillReqs : KeepsKeysOutside(prefillReqs[i].body, RewrittenKeys)
        /\ \A i \in DOMAIN decodeReqs : KeepsKeysOutside(decodeReqs[i].body, RewrittenKeys)
        /\ \A i \in DOMAIN decodeReqs :
              KeepsKeysOutside(decodeReqs[i].body, {requestFieldKVTransferParams})

\* ---------------------------------------------------------------------------
\* a step that rebuilds the allowed set
RebuildStep == onPodAdd \/ onPodUpdate \/ onPodDelete \/ onInferencePoolDelete

\* the pods in the caches of the current pod watchers, as <<name, ip>>
ObservedPods(informers) ==
    { << name, informers[pool][name] >> :
         << pool, name >> \in { pn \in (DOMAIN informers) \X PodNames :
                                  pn[2] \in DOMAIN informers[pn[1]] } }

\* C22 (as stated): after every rebuild the allowed set is the union, over the
\* caches of all current pod watchers, of the IP address of each observed
\* pod that has one and the name of each observed pod, and nothing else.
\* A pod without an IP address is skipped, name included.
C22_AsStated ==
    [][ RebuildStep =>
          allowedTargets' =
             { << p[2] >> : p \in { q \in ObservedPods(podInformers') : q[2] # "" } }
             \cup { << p[1] >> : p \in ObservedPods(podInformers') } ]_vars

\* C22 (amended): after every rebuild the allowed set is the union, over the
\* caches of all current pod watchers, of the IP address and the name of each
\* observed pod that has an IP address, and nothing else.
C22_RebuiltFromPodsWithIP ==
    [][ RebuildStep =>
          allowedTargets' =
             { << p[2] >> : p \in { q \in ObservedPods(podInformers') : q[2] # "" } }
             \cup { << p[1] >> : p \in { q \in ObservedPods(podInformers') : q[2] # "" } } ]_vars

C22_Witness ==
    /\ enabled
    /\ PoolName \in DOMAIN podInformers
    /\ "pod1" \in DOMAIN podInformers[PoolName]
    /\ podInformers[PoolName]["pod1"] = "10.0.0.5"
    /\ allowedTargets = { << "10.0.0.5" >>, << "pod1" >> }

\* ---------------------------------------------------------------------------
\* C23: after the start context is cancelled, Server.Start eventually returns
\* without error: every listener, main and sibling, stops serving and the
\* wait on the listener group completes.
\* With SSRF protection on, every listener's termination goroutine calls Stop
\* on the one validator, and the second close of its stop channel panics.
C23_StartReturnsAfterCancel ==
    ctxDone ~> ( /\ startResult = "nil"
                 /\ \A r \in Ranks : listenerPc[r] = "returnedNil" )

\* ---------------------------------------------------------------------------
\* the pod watchers of the pool whose stop channel is open
LiveWatchers(chans) == { i \in DOMAIN chans : chans[i].pool = PoolName /\ chans[i].closes = 0 }

PoolAddOrUpdate == av_onInferencePoolAdd \/ av_onInferencePoolUpdate

\* the event stopped the registered watcher, if any, and registered a new one
\* with the event's selector
ReplacedWatcher ==
    /\ PoolName \in DOMAIN podStopChans =>
          /\ podChans'[podStopChans[PoolName]].closes = 1
          /\ podStopChans'[PoolName] # podStopChans[PoolName]
    /\ PoolName \in DOMAIN podStopChans'
    /\ PoolName \in DOMAIN podInformers'
    /\ podStopChans'[PoolName] = Len(podChans) + 1
    /\ podChans'[podStopChans'[PoolName]].closes = 0
    /\ podChans'[podStopChans'[PoolName]].selector = lastEvent'.selector

\* C25 (as stated): after any sequence of pool-added and pool-updated events
\* at most one pod watcher is live for the pool: each such event stops the
\* pool's previous pod watcher, closing its stop channel, before the new one
\* is registered, and the registered watcher uses the selector of the latest
\* event.
\* An event whose spec has no selector changes nothing.
C25_AsStated ==
    [][ PoolAddOrUpdate =>
          (Cardinality(LiveWatchers(podChans')) <= 1 /\ ReplacedWatcher) ]_vars

\* C25 (amended): after any sequence of pool-added and pool-updated events at
\* most one pod watcher is live for the pool: each such event whose spec has
\* a selector stops the pool's previous pod watcher, closing its stop
\* channel, before the new one is registered, and the registered watcher
\* uses that selector; an event whose spec has no selector leaves the
\* registered watcher, if any, running with the selector it had.
C25_OneLiveWatcher ==
    [][ PoolAddOrUpdate =>
          /\ Cardinality(LiveWatchers(podChans')) <= 1
          /\ IF lastEvent'.selector # NoSelector
             THEN ReplacedWatcher
             ELSE UNCHANGED << podStopChans, podChans, podInformers >> ]_vars

C25_Witness ==
    /\ Len(podChans) = 2
    /\ podChans[1].closes = 1
    /\ podChans[1].selector = "a"
    /\ podChans[2].closes = 0
    /\ podChans[2].selector = "b"
    /\ lastEvent = [type |-> "update", selector |-> "b"]
    /\ PoolName \in DOMAIN podStopChans
    /\ podStopChans[PoolName] = 2

\* ---------------------------------------------------------------------------
\* the hosts of the pods a selector matches
HostsMatched(selector) ==
    UNION { { << pod.ip >>, << pod.name >> } :
               pod \in { q \in ClusterPods : Matches(selector, q) } }

\* C26: after a pool-updated event that changes the selector, the allowed set
\* eventually contains only hosts of pods the new selector matches, also
\* when it matches no pod: hosts of pods only the old selector matched do not
\* stay allowed for ever (unless a later pool event takes over).
\* A pool event replaces the watcher and rebuilds nothing; the set is rebuilt
\* on the next pod event, and a selector that matches no pod brings none.
C26_OldHostsLeave ==
    \A selector \in Selectors :
        (lastEvent = [type |-> "update", selector |-> selector])
           ~> ( \/ lastEvent # [type |-> "update", selector |-> selector]
                \/ allowedTargets \subseteq HostsMatched(selector) )

\* ---------------------------------------------------------------------------
\* C27: after a pool-deleted event has been handled, the pool's pod watcher is
\* stopped (its stop channel closed) and removed from both tables, and the
\* allowed set has been rebuilt from the remaining watchers only; with the
\* single watched pool it is empty, so no host of the deleted pool's pods is
\* allowed any more.
C27_DeleteStopsAndRebuilds ==
    [][ av_onInferencePoolDelete =>
          /\ PoolName \in DOMAIN podStopChans =>
                podChans'[podStopChans[PoolName]].closes = 1
          /\ LiveWatchers(podChans') = {}
          /\ PoolName \notin DOMAIN podStopChans'
          /\ PoolName \notin DOMAIN podInformers'
          /\ allowedTargets' =
                { << p[2] >> : p \in { q \in ObservedPods(podInformers') : q[2] # "" } }
                \cup { << p[1] >> : p \in { q \in ObservedPods(podInformers') : q[2] # "" } }
          /\ allowedTargets' = {} ]_vars

C27_Witness ==
    /\ lastEvent.type = "delete"
    /\ Len(podChans) >= 1
    /\ podChans[Len(podChans)].selector = "a"
    /\ podChans[Len(podChans)].closes = 1
    /\ podStopChans = << >>
    /\ podInformers = << >>
    /\ allowedTargets = {}

\* ---------------------------------------------------------------------------
\* C28: no stop channel of the allowlist validator, per pool or root, is
\* closed more than once in any interleaving of pool events with shutdown,
\* also when DataParallelSize listeners share the one validator and each of
\* them runs Start and, on cancellation, Stop.
C28_NoDoubleClose ==
    /\ stopCh <= 1
    /\ \A i \in DOMAIN podChans : podChans[i].closes <= 1

\* ---------------------------------------------------------------------------
\* some listener's call of Stop has returned
StopReturned == \E r \in Ranks : enabled /\ shutdownPc[r] \in {"stopped", "done"}

\* C29: once Stop has returned no pod watcher is running: a pool-added or
\* pool-updated event that races with Stop leaves no pod watcher behind whose
\* stop channel is never closed.
C29_NoWatcherAfterStop ==
    StopReturned => LiveWatchers(podChans) = {}

\* ---------------------------------------------------------------------------
\* C30: Stop closes every per-pool stop channel before it closes the root stop
\* channel, and when Stop returns the per-pool watcher table and the
\* stop-channel table are both empty.
C30_PoolChannelsFirstTablesEmpty ==
    [][ \A r \in Ranks :
           (enabled /\ Stop_stopCh(r)) =>
              /\ \A i \in DOMAIN podChans : podChans[i].closes >= 1
              /\ podStopChans' = << >>
              /\ podInformers' = << >> ]_vars

\* ---------------------------------------------------------------------------
\* C31: handling a pool-deleted event closes only that pool's stop channel: the
\* root stop channel stays open, the pool watcher keeps running, and every
\* other stop channel and every other pool's entry in the two tables is left
\* as it was.
C31_DeleteClosesOnlyThePoolsChannel ==
    [][ av_onInferencePoolDelete =>
          /\ stopCh' = stopCh
          /\ stopCh' = 0
          /\ poolInformersRun' = poolInformersRun
          /\ PoolInformerRunning'
          /\ \A i \in DOMAIN podChans :
                IF PoolName \in DOMAIN podStopChans /\ i = podStopChans[PoolName]
                THEN podChans'[i] = [podChans[i] EXCEPT !.closes = @ + 1]
                ELSE podChans'[i] = podChans[i]
          /\ Len(podChans') = Len(podChans)
          /\ \A pool \in (DOMAIN podStopChans) \ {PoolName} :
                pool \in DOMAIN podStopChans' /\ podStopChans'[pool] = podStopChans[pool]
          /\ \A pool \in (DOMAIN podInformers) \ {PoolName} :
                pool \in DOMAIN podInformers' /\ podInformers'[pool] = podInformers[pool]
      ]_vars

C31_Witness ==
    /\ lastEvent.type = "delete"
    /\ stopCh = 0
    /\ poolInformersRun > 0
    /\ Len(podChans) = 2
    /\ podChans[1].closes = 1
    /\ podChans[2].closes = 1
    /\ ~crashed

\* ---------------------------------------------------------------------------
\* goroutine g holds lock mu, for writing or for reading
Holds(g, mu) == MuOf(mu).w = g \/ g \in MuOf(mu).r

\* C32: the two locks of the validator never deadlock: in any interleaving of
\* IsAllowed, rebuildAllowlist, createPodInformer, onInferencePoolDelete and
\* Stop every operation a goroutine has entered completes, and no goroutine
\* asks for the allowlist lock while it holds the pod-informer-table lock.
C32_EveryOperationCompletes ==
    /\ \A g \in Goroutines : (goOp[g] # "") ~> (goOp[g] = "")
    /\ [](\A g \in Goroutines :
             (At(g).mu = AMu /\ At(g).i \in {"Lock", "RLock"}) => ~Holds(g, PMu))

C32_Witness ==
    /\ goOp["poolInformer"] = "onInferencePoolDelete"
    /\ At("poolInformer") = Ins("RLock", PMu)
    /\ allowedTargetsMu.w = "poolInformer"
    /\ At("termination") = Ins("Lock", PMu)
    /\ At("request") = Ins("RLock", AMu)
    /\ At("podInformer") = Ins("Lock", AMu)

\* ---------------------------------------------------------------------------
\* C33: an IsAllowed call that runs concurrently with a rebuild answers from a
\* consistent snapshot: it reads the set while no rebuild holds it, the set
\* changes only inside a rebuild that no reader overlaps, and a rebuild
\* leaves exactly the complete set of the stores it listed; so the answer is
\* membership in the complete set before the rebuild or after it, never in
\* the cleared or partly refilled one.
C33_ConsistentSnapshot ==
    [][ /\ (Step("request") /\ At("request").i = "Has") =>
              /\ allowedTargetsMu.w = ""
              /\ \A g \in Goroutines :
                    goOp[g] \in {"rebuildAllowlist", "onInferencePoolDelete"} =>
                       At(g).i \notin {"clear", "RLock", "list", "insertIP", "insertName",
                                       "RUnlock"}
                       /\ At(g) # Ins("Unlock", AMu)
              /\ isAllowedCall'.allowed =
                    (normalizeHostPort(isAllowedCall.hostPort) \in allowedTargets)
        /\ allowedTargets' # allowedTargets =>
              allowedTargetsMu.w # "" /\ allowedTargetsMu.r = {}
        /\ \A g \in Goroutines :
              (Step(g) /\ At(g) = Ins("RUnlock", PMu)) =>
                 allowedTargets = rebuildAllowlist(snap[g]) ]_vars

C33_Witness ==
    /\ At("request") = Ins("RUnlock", AMu)
    /\ isAllowedCall.returned
    /\ isAllowedCall.allowed
    /\ goOp["podInformer"] = "rebuildAllowlist"
    /\ At("podInformer") = Ins("Lock", AMu)
    /\ PoolName \in DOMAIN podInformers
    /\ podInformers[PoolName] = << >>

\* ---------------------------------------------------------------------------
\* the keys that have an entry in the cache
LRUKeys(cache) == { cache[i].key : i \in DOMAIN cache }

\* C34: under any sequence and interleaving of prefillerProxyHandler calls the
\* peer-proxy cache holds at most 16 entries and at most one entry for each
\* normalized key, and a key's entry leaves the cache only by LRU eviction:
\* it is the least recently used one when an insert of a new key finds the
\* cache at its capacity.
C34_CacheBoundedKeysUnique ==
    [][ /\ Len(prefillerProxies') <= prefillerProxiesSize
        /\ \A i, j \in DOMAIN prefillerProxies' :
              prefillerProxies'[i].key = prefillerProxies'[j].key => i = j
        /\ \A key \in LRUKeys(prefillerProxies') : NormalizedKey(key) = key
        /\ \A key \in LRUKeys(prefillerProxies) \ LRUKeys(prefillerProxies') :
              /\ Len(prefillerProxies) = prefillerProxiesSize
              /\ key = prefillerProxies[prefillerProxiesSize].key
              /\ \E g \in Servers :
                    /\ prefillerProxies_Add(g)
                    /\ inFlight[g].key \notin LRUKeys(prefillerProxies) ]_vars

C34_Witness ==
    /\ Len(prefillerProxies) = prefillerProxiesSize
    /\ Peer(2) \notin LRUKeys(prefillerProxies)
    /\ Peer(1) \in LRUKeys(prefillerProxies)
    /\ \E g \in Servers : inFlight[g] # NoAdd /\ inFlight[g].key \notin LRUKeys(prefillerProxies)

\* C35: the x-request-id value that the prefill peer and the local decoder read
\* from a sub-request of the connector run is the UUID generated for that
\* request, also when the client request carries an x-request-id of its own.
C35_SubRequestsReadFreshUUID ==
    handledBy = "runner" =>
        /\ \A i \in DOMAIN prefillReqs :
              HeaderGet(prefillReqs[i].xRequestID) = uuidStr
        /\ \A i \in DOMAIN decodeReqs :
              HeaderGet(decodeReqs[i].xRequestID) = uuidStr

\* a connector run for a client request with its own x-request-id: the decoder
\* reads the client's value, not the UUID that follows it in the header
C35_ClientValueRead ==
    /\ handledBy = "runner"
    /\ req.xRequestID = << ClientRequestID >>
    /\ Len(decodeReqs) = 1
    /\ decodeReqs[1].xRequestID = << ClientRequestID, uuidStr >>
    /\ HeaderGet(decodeReqs[1].xRequestID) # uuidStr

\* the map the claim describes for the flags of this run
ExpectedProxies ==
    [ k \in { JoinHostPort(POD_IP, Itoa(Atoi(srvPort).n + i)) : i \in 0 .. (dpSize - 1) } |->
        JoinHostPort("localhost",
            Itoa(Atoi(srvDecoderPort).n +
                 (CHOOSE i \in 0 .. (dpSize - 1) :
                     JoinHostPort(POD_IP, Itoa(Atoi(srvPort).n + i)) = k))) ]

ListenerStarted == \E r \in AllRanks : rankPc[r] # "none"

\* C36: while a listener serves, the data-parallel table has exactly the keys
\* podIP:port+i for i below the data-parallel degree, key i mapped to the
\* handler of the decoder on localhost:decoderPort+i; the table is complete
\* when the first listener is started and no step changes it afterwards.
C36_TableCompleteBeforeListeners ==
    [][ /\ (\E r \in AllRanks : rankPc'[r] = "serving") => dpProxies' = ExpectedProxies'
        /\ ListenerStarted' => dpProxies' = ExpectedProxies'
        /\ ListenerStarted => dpProxies' = dpProxies ]_vars

C36_Witness ==
    /\ dpSize = 3
    /\ \A r \in 0 .. 2 : rankPc[r] = "serving"
    /\ Cardinality(DOMAIN dpProxies) = 3
    /\ dpProxies[JoinHostPort(POD_IP, "8002")] = JoinHostPort("localhost", "8003")
    /\ dpLookup[2] = JoinHostPort("localhost", "8003")

\* a step of Score: a request enters its scheduling cycle
ScoreStep == inCycle' # inCycle /\ inCycle \subseteq inCycle'

\* a < b for two scores
Less(a, b) == a.num * b.den < b.num * a.den

\* the scores of a cold request are the same for every candidate list
SameColdScores ==
    \A pods \in CandidateLists :
        scoreColdRequestByLRU(pods, lruCache') = scoreColdRequestByLRU(pods, lruCache)

\* the request of the last Score had a prefix-cache hit
WarmScored(score) == score.prefix.found /\ score.prefix.servers > 0

\* C37: Score gives every candidate of a request with a prefix-cache hit the
\* score 0.5, and neither it nor the PreRequest of that request changes the
\* cache order, so that a cold request is scored as before.
C37_WarmRequestLeavesLRU ==
    [][ /\ (ScoreStep /\ WarmScored(lastScore')) =>
              /\ DOMAIN lastScore'.scores = Elems(lastScore'.pods)
              /\ \A p \in DOMAIN lastScore'.scores :
                    lastScore'.scores[p] = Fraction(1, 2)
              /\ \A id \in inCycle' \ inCycle : pluginState'[id] = FALSE
              /\ lruCache' = lruCache
        /\ \A id \in inCycle \ inCycle' :
              ~pluginState[id] => (lruCache' = lruCache /\ SameColdScores) ]_vars

C37_Witness ==
    /\ WarmScored(lastScore)
    /\ Len(lastScore.pods) = 3
    /\ inCycle = {}
    /\ pluginState = << >>
    /\ Len(lruCache) = 2

\* the step is the Score of a cold request with at least two candidates
ColdScoreStep ==
    /\ ScoreStep
    /\ isColdRequest(lastScore'.prefix)
    /\ Len(lastScore'.pods) >= 2

C39_OlderScoresHigher ==
    [][ ColdScoreStep =>
          \A i, j \in DOMAIN coldOrder :
              (/\ i < j
               /\ coldOrder[i] \in Elems(lastScore'.pods)
               /\ coldOrder[j] \in Elems(lastScore'.pods)) =>
                  Less(lastScore'.scores[coldOrder[j]], lastScore'.scores[coldOrder[i]]) ]_vars

\* with the default capacity: the cache holds three pods and the two newest
\* are the candidates; both get the score 0, the older as the newer
C39_ClampedTie ==
    /\ lruSize = defaultLRUSize
    /\ lruCache = << PodNamespacedNames[1], PodNamespacedNames[2], PodNamespacedNames[3] >>
    /\ isColdRequest(lastScore.prefix)
    /\ lastScore.pods = << PodNamespacedNames[2], PodNamespacedNames[3] >>
    /\ lastScore.scores[PodNamespacedNames[2]] = Fraction(0, 1)
    /\ lastScore.scores[PodNamespacedNames[3]] = Fraction(0, 1)

\* the target the scheduler chose for the prefill: address:port of the first
\* target pod of the prefill profile, "" when the profile has no result
ScheduledPrefillTarget ==
    IF defaultPrefillProfile \in DOMAIN profileResults
    THEN JoinHostPort(profileResults[defaultPrefillProfile][1].Address,
                      profileResults[defaultPrefillProfile][1].Port)
    ELSE EmptyString

\* C40: after PrefillHeaderHandler.PreRequest the x-prefiller-host-port header
\* is address:port of the first target pod of the prefill profile when the
\* profile has a result and is empty or absent otherwise, whatever the client
\* sent; the prefill target the sidecar reads is never one the client chose.
C40_ClientTargetNeverSurvives ==
    /\ prePc \in {"handled", "served"} =>
          HeaderValue(requestHeaders, PrefillPodHeader) = ScheduledPrefillTarget
    /\ prePc = "served" => sidecarTarget = ScheduledPrefillTarget

\* the header part of C40 alone
C40_HeaderIsTheScheduledTarget ==
    prePc \in {"handled", "served"} =>
        HeaderValue(requestHeaders, PrefillPodHeader) = ScheduledPrefillTarget

\* a request whose client sent x-prefiller-url alone, without prefill result:
\* the sidecar takes the client's value as the prefill target
C40_LegacyHeaderSurvives ==
    /\ prePc = "served"
    /\ defaultPrefillProfile \notin DOMAIN profileResults
    /\ PrefillPodHeader \notin DOMAIN clientHeaders
    /\ HeaderValue(clientHeaders, requestHeaderPrefillURL) = <<"evil.example", ":", "9000">>
    /\ sidecarTarget = <<"evil.example", ":", "9000">>

=============================================================================
